---------------------------- MODULE Spec2Model ----------------------------
(***************************************************************************)
(* The MCP hub (raspberry-pi/mcp-server) and the Peer Client               *)
(* (jetson/mcp_client.py) as state machines.                               *)
(*                                                                         *)
(* The hub runs on one asyncio event loop: a task runs without             *)
(* interruption from one await to the next.  `running` names the task that *)
(* holds the loop; every other task waits at an await and resumes only     *)
(* when the loop is idle.  Straight-line code between two awaits is one    *)
(* action; the loops of the code (broadcast, the supervisor's scan) take   *)
(* one step per iteration while their task holds the loop.                 *)
(***************************************************************************)
EXTENDS Integers, Sequences, FiniteSets, TLC

\* ------------------------------------------------------------------ bounds
\* Agent ids are opaque keys to the hub: a run is the same run under a
\* renaming, so a new agent id is taken in this order.
AgentOrder == <<"A", "B", "C">>
Agents == {AgentOrder[i] : i \in DOMAIN AgentOrder}
\* A run is bounded by the limits `lim` it starts with: how many websockets
\* are accepted, inbound messages handled, scans run, faults injected (a store
\* call or a frame that raises) and clock ticks taken, and the length of a
\* tick.
MaxConns == 3
MaxEvents == 4
MaxTicks == 3
MaxAttempts == 8
CacheEvents == 5
ProtoEvents == 4
UnicastEvents == 4
RestEvents == 4
MaxLogged == 2
MaxInbound == 3
MaxWire == 3
MaxStale == 2

\* ------------------------------------------------------- program constants
HeartbeatTimeout == 60
ScanPeriod == 30
CacheTTL == 3600

\* ------------------------------------------------------------- python dict
\* A dict is the sequence of its entries in insertion order.  An entry of
\* active_connections also keeps the slot it was inserted at, which is what
\* a dict iterator walks.
DictKeys(d) == {d[i].k : i \in DOMAIN d}

DictHas(d, key) == key \in DictKeys(d)

DictGet(d, key) == d[CHOOSE i \in DOMAIN d : d[i].k = key].v

DictSet(d, key, val, slot) ==
    IF DictHas(d, key)
    THEN [i \in DOMAIN d |-> IF d[i].k = key THEN [d[i] EXCEPT !.v = val] ELSE d[i]]
    ELSE Append(d, [k |-> key, v |-> val, slot |-> slot])

DictDel(d, key) == SelectSeq(d, LAMBDA e : e.k # key)

\* ------------------------------------------------------------------- state
VARIABLES
    now,                 \* datetime.utcnow(), in seconds
    active_connections,  \* ConnectionManager.active_connections: agent -> websocket
    agent_metadata,      \* ConnectionManager.agent_metadata: agent -> record
    last_heartbeat,      \* ConnectionManager.last_heartbeat: agent -> time
    ws,                  \* the websockets accepted so far: handle -> [agent, st]
    task,                \* agent_websocket's task of each websocket
    sup,                 \* the _monitor_heartbeats task
    running,             \* the task that holds the event loop
    outbox,              \* what each websocket's peer was sent, in order
    cache,               \* redis: key -> [value, written]
    history,             \* postgres context_history
    actions_log,         \* postgres actions_log
    db_agents,           \* postgres agents
    lim,                 \* the limits of the run
    nconn, nmsgs, nscans, nfaults, nticks,   \* how much of each limit is used
    nregs,               \* register_agent calls so far, per agent
    log,                 \* the inbound messages handled so far, each with its outcome
    rest,                \* the request POST /context/update is serving
    client               \* one MCPClient: its fields and where its connect() stands

hubvars == <<now, active_connections, agent_metadata, last_heartbeat, ws, task, sup,
             running, outbox, cache, history, actions_log, db_agents,
             lim, nconn, nmsgs, nscans, nfaults, nticks, nregs, log, rest>>

vars == <<hubvars, client>>

Handles == 1..MaxConns

Idle == [kind |-> "idle", h |-> 0]
RunWs(h) == [kind |-> "ws", h |-> h]
RunSup == [kind |-> "sup", h |-> 0]
RunRest == [kind |-> "rest", h |-> 0]

\* A message sent to an agent: its type, what caused it (the serial number of
\* the inbound message, the scan or the websocket), the agent it names and the
\* context events it carries.
OutMsg(type, tag, agent, val) ==
    [type |-> type, tag |-> tag, agent |-> agent, val |-> val, rid |-> 0]

\* The same for the two messages of action routing, which carry a request_id.
ActMsg(type, tag, agent, rid) ==
    [type |-> type, tag |-> tag, agent |-> agent, val |-> {}, rid |-> rid]

\* An inbound message.  "missing" stands for a field the payload lacks, and a
\* prio of -1 for a payload without priority.
InMsg(type, atype, ctype, val, prio, target, qtype, rid) ==
    [type |-> type, atype |-> atype, ctype |-> ctype, val |-> val, prio |-> prio,
     target |-> target, qtype |-> qtype, rid |-> rid]

NoMsg == InMsg("none", "", "", 0, 0, "", "", 0)

\* The state of one broadcast(): failed is its list `disconnected`,
\* failedws the websockets whose send_json raised, and to the websocket of
\* the send_json it awaits.
NoBc == [msg |-> OutMsg("none", 0, "", {}), exclude |-> "", pos |-> 0, len |-> 0,
         used |-> 0, failed |-> <<>>, failedws |-> {}, to |-> 0, cont |-> "none"]

NoTask == [pc |-> "unused", m |-> NoMsg, tag |-> 0, bc |-> NoBc, keys |-> <<>>, res |-> {}]

\* update_context_rest: body is the request's JSON, m the update.dict() the
\* handler is called with, and status the outcome of the last request
\* ("ok", "refused" for a 422, "failed" for a 500).
NoRest == [pc |-> "idle", agent |-> "", body |-> NoMsg, m |-> NoMsg, tag |-> 0,
           bc |-> NoBc, status |-> "none"]

\* expired, since, evicted and endc record, for the scan numbered `scan`, the
\* agents whose heartbeat had expired and the websockets registered when it
\* started, the agents it disconnected, and the websockets registered and
\* open when it ended.
\* errors counts the scans that ended in the `except Exception`.
NoSup == [pc |-> "sleep", scan_now |-> 0, snap |-> <<>>, disconnected |-> <<>>,
          bc |-> NoBc, scan |-> 0, expired |-> {}, since |-> {}, evicted |-> {},
          endc |-> {}, errors |-> 0]

\* ----------------------------------------------------- ConnectionManager
\* The three tables, as one value the synchronous methods transform.
Registry == [ac |-> active_connections, md |-> agent_metadata, hb |-> last_heartbeat]

\* connect(), after the accept.
connect(R, a, h, t) ==
    [R EXCEPT !.ac = DictSet(R.ac, a, h, h), !.hb = DictSet(R.hb, a, t, 0)]

disconnect(R, a, t) ==
    [ac |-> DictDel(R.ac, a),
     md |-> IF a \in DOMAIN R.md
            THEN [R.md EXCEPT ![a].status = "disconnected", ![a].disconnected_at = t]
            ELSE R.md,
     hb |-> DictDel(R.hb, a)]

update_heartbeat(R, a, t) == [R EXCEPT !.hb = DictSet(R.hb, a, t, 0)]

\* The register_agent in force is the second definition of the class body:
\* the record is the registration plus connected_at, and nothing of the
\* previous record survives.
register_agent(R, a, atype, t) ==
    [R EXCEPT !.md = [x \in DOMAIN R.md \cup {a} |->
        IF x = a
        THEN [agent_type |-> atype, connected_at |-> t, status |-> "absent",
              disconnected_at |-> -1, reconnected |-> "absent",
              reconnect_attempts |-> -1]
        ELSE R.md[x]]]

is_agent_connected(R, a) == DictHas(R.ac, a)

RECURSIVE DisconnectAll(_, _, _)
DisconnectAll(R, list, t) ==
    IF list = <<>> THEN R
    ELSE DisconnectAll(disconnect(R, Head(list), t), Tail(list), t)

SetRegistry(R) ==
    /\ active_connections' = R.ac
    /\ agent_metadata' = R.md
    /\ last_heartbeat' = R.hb

\* --------------------------------------------------------------- websocket
\* send_json on websocket h succeeds while the socket is open; on a socket
\* the peer dropped or the server closed it raises.
SendOk(h) == ws[h].st = "open"

Deliver(ob, h, msg) == [ob EXCEPT ![h] = Append(@, msg)]

\* ------------------------------------------------------------ dict iterator
\* next() of the iterator behind `for ... in self.active_connections.items()`:
\* RuntimeError when the dict's size differs from the size at the start of
\* the loop, StopIteration when no entry lies past the iterator's position,
\* RuntimeError when one does although every entry counted at the start was
\* already produced, the entry otherwise.
ItNext(ac, bc) ==
    IF Len(ac) # bc.used THEN [kind |-> "error", agent |-> "", conn |-> 0, bc |-> bc]
    ELSE LET cand == {i \in DOMAIN ac : ac[i].slot > bc.pos} IN
         IF cand = {} THEN [kind |-> "stop", agent |-> "", conn |-> 0, bc |-> bc]
         ELSE IF bc.len = 0 THEN [kind |-> "error", agent |-> "", conn |-> 0, bc |-> bc]
         ELSE LET i == CHOOSE i \in cand : \A j \in cand : i <= j IN
              [kind |-> "item", agent |-> ac[i].k, conn |-> ac[i].v,
               bc |-> [bc EXCEPT !.pos = ac[i].slot, !.len = bc.len - 1]]

\* The loop of broadcast() up to its next send: the excluded agent is passed
\* without an await.
BcAdvance(ac, bc) ==
    LET r == ItNext(ac, bc) IN
    IF r.kind = "item" /\ r.agent = bc.exclude THEN ItNext(ac, r.bc) ELSE r

BcInit(R, msg, exclude, cont) ==
    [msg |-> msg, exclude |-> exclude, pos |-> 0, len |-> Len(R.ac), used |-> Len(R.ac),
     failed |-> <<>>, failedws |-> {}, to |-> 0, cont |-> cont]

\* broadcast() from where it stands to its next await ("await"), to its end
\* with the dead connections cleaned ("done"), or to the RuntimeError of the
\* iterator ("error").
BcRun(bc, R, ob) ==
    LET r == BcAdvance(R.ac, bc) IN
    CASE r.kind = "error" -> [kind |-> "error", bc |-> NoBc, R |-> R, ob |-> ob]
      [] r.kind = "stop" ->
            [kind |-> "done", bc |-> NoBc, R |-> DisconnectAll(R, bc.failed, now), ob |-> ob]
      [] r.kind = "item" ->
            IF SendOk(r.conn)
            THEN [kind |-> "await", bc |-> [r.bc EXCEPT !.to = r.conn], R |-> R,
                  ob |-> Deliver(ob, r.conn, bc.msg)]
            ELSE [kind |-> "await",
                  bc |-> [r.bc EXCEPT !.failed = Append(@, r.agent),
                                      !.failedws = @ \cup {r.conn}, !.to = 0],
                  R |-> R, ob |-> ob]

\* MCPClient.__init__: reconnect_delay and max_reconnect_delay, in seconds.
ReconnectDelay == 1
MaxReconnectDelay == 60

\* random.uniform(0, 1), in milliseconds.
Jitters == {0, 250, 500, 750, 1000}

Min(x, y) == IF x <= y THEN x ELSE y

\* pc is where connect() stands: awaiting websockets.connect ("connecting"),
\* in _listen ("listening"), in the sleep of _handle_disconnection
\* ("sleeping"), or returned ("stopped").  delay and jitter are the locals
\* of _handle_disconnection while it sleeps, in milliseconds.  websocket is
\* "none" for None and otherwise the state of the connection behind the
\* object; wire is what was written on that connection.  heartbeat_task is
\* the task the field refers to ("none", "running", "done"), stale_tasks the
\* number of earlier heartbeat tasks that still run.  result is what send()
\* returned to the agent's code the last time it called it.  callbacks is
\* the dict of on(), from message types to callbacks; inbound counts the
\* messages _handle_message was given and invoked lists the callbacks it
\* called, each with the type of its message.
NewClient ==
    [pc |-> "connecting", connected |-> FALSE, should_reconnect |-> TRUE,
     reconnect_delay |-> ReconnectDelay, reconnect_attempts |-> 0, delay |-> 0,
     jitter |-> 0, websocket |-> "none", wire |-> <<>>,
     heartbeat_task |-> "none", stale_tasks |-> 0, callbacks |-> [k \in {} |-> 0],
     inbound |-> 0, invoked |-> <<>>, result |-> "none"]

\* A key redis still serves at time t: SETEX removes it CacheTTL seconds
\* after its last write.
Live(entry, t) == t - entry.v.written < CacheTTL

\* What the cache holds at time t: each live key with its value.
View(c, t) == {<<c[i].k[1], c[i].k[2], c[i].v.event.val>> :
                  i \in {j \in DOMAIN c : Live(c[j], t)}}

\* The cache was written or time passed: every query being handled has one
\* more view of the cache within its span.
Observe(lg, c, t) ==
    [i \in DOMAIN lg |->
        IF lg[i].st = "busy" /\ lg[i].m.type = "query"
        THEN [lg[i] EXCEPT !.views = @ \cup {View(c, t)}]
        ELSE lg[i]]

\* -------------------------------------------------------------------- Init
Limits(conns, msgs, scans, faults, ticks, tick) ==
    [conns |-> conns, msgs |-> msgs, scans |-> scans, faults |-> faults, ticks |-> ticks,
     tick |-> tick, stuck |-> {}]

\* The send_json a broadcast awaits returns: the peer of lim.stuck's
\* websockets has stopped reading, and a send to it never does.
Completes(bc) == bc.to \notin lim.stuck

Start ==
    /\ now = 0
    /\ active_connections = <<>>
    /\ agent_metadata = <<>>
    /\ last_heartbeat = <<>>
    /\ ws = [h \in Handles |-> [agent |-> "", st |-> "none"]]
    /\ task = [h \in Handles |-> NoTask]
    /\ sup = NoSup
    /\ running = Idle
    /\ outbox = [h \in Handles |-> <<>>]
    /\ cache = <<>>
    /\ history = <<>>
    /\ actions_log = <<>>
    /\ db_agents = <<>>
    /\ nconn = 0 /\ nmsgs = 0 /\ nscans = 0 /\ nfaults = 0 /\ nticks = 0
    /\ nregs = [a \in Agents |-> 0]
    /\ log = <<>>
    /\ rest = NoRest
    /\ client = NewClient

\* ------------------------------------------------------------- environment
\* Time passes.
Tick ==
    /\ running = Idle
    /\ nticks < lim.ticks
    /\ now' = now + lim.tick
    /\ nticks' = nticks + 1
    /\ log' = Observe(log, cache, now + lim.tick)
    /\ UNCHANGED <<client, rest, lim, active_connections, agent_metadata, last_heartbeat, ws, task, sup, running,
                   outbox, cache, history, actions_log, db_agents, nconn, nmsgs, nscans,
                   nfaults, nregs>>

\* The peer of websocket h goes away (a close frame, or the link breaks).
PeerDrop(h) ==
    /\ running = Idle
    /\ ws[h].st = "open"
    /\ ws' = [ws EXCEPT ![h].st = "dropped"]
    /\ UNCHANGED <<client, rest, lim, log, now, active_connections, agent_metadata, last_heartbeat, task, sup, running,
                   outbox, cache, history, actions_log, db_agents, nconn, nmsgs, nscans,
                   nfaults, nticks, nregs>>

\* ------------------------------------------------------- agent_websocket
Known == {ws[h].agent : h \in 1..nconn}

NextNew == AgentOrder[CHOOSE i \in DOMAIN AgentOrder :
                /\ AgentOrder[i] \notin Known \/ i = Len(AgentOrder)
                /\ \A j \in 1..(i - 1) : AgentOrder[j] \in Known]

\* An agent opens /ws/agent/{a}: accept, connect(), the connection_established
\* greeting, and the task waits in receive_json.
Connect(a) ==
    /\ running = Idle
    /\ nconn < lim.conns
    /\ a \in Known \cup {NextNew}
    /\ LET h == nconn + 1 IN
        /\ nconn' = h
        /\ ws' = [ws EXCEPT ![h] = [agent |-> a, st |-> "open"]]
        /\ SetRegistry(connect(Registry, a, h, now))
        /\ outbox' = Deliver(outbox, h, OutMsg("connection_established", h, a, {}))
        /\ task' = [task EXCEPT ![h].pc = "recv"]
    /\ UNCHANGED <<client, rest, lim, log, now, sup, running, cache, history, actions_log, db_agents, nmsgs, nscans,
                   nfaults, nticks, nregs>>

\* The websockets the registry holds.
Conns(ac) == {ac[i].v : i \in DOMAIN ac}

\* The handling that websocket h's task was busy with ends: st says how, and
\* the entry keeps the websockets registered and open at that moment.
Finish(lg, h, st, R) ==
    [i \in DOMAIN lg |->
        IF lg[i].h = h /\ lg[i].st = "busy"
        THEN [lg[i] EXCEPT !.st = st,
                           !.end = {c \in Conns(R.ac) : ws[c].st = "open"}]
        ELSE lg[i]]

\* An error handling that disconnects every agent of the registry.
RaiseAll(h, lg) ==
    LET R == DisconnectAll(Registry,
                 [i \in DOMAIN active_connections |-> active_connections[i].k], now) IN
    /\ SetRegistry(R)
    /\ log' = Finish(lg, h, "raised", R)
    /\ task' = [task EXCEPT ![h] = [NoTask EXCEPT !.pc = "ended"]]
    /\ ws' = [ws EXCEPT ![h].st = "closed"]
    /\ running' = Idle

\* `except Exception` of agent_websocket: disconnect(agent_id), and the
\* endpoint returns, which closes the websocket.
Raise(h, lg) ==
    /\ SetRegistry(disconnect(Registry, ws[h].agent, now))
    /\ log' = Finish(lg, h, "raised", disconnect(Registry, ws[h].agent, now))
    /\ task' = [task EXCEPT ![h] = [NoTask EXCEPT !.pc = "ended"]]
    /\ ws' = [ws EXCEPT ![h].st = "closed"]
    /\ running' = Idle

\* An exception that leaves the endpoint unhandled (raised inside the
\* WebSocketDisconnect handler): the task dies and the websocket closes.
Die(h) ==
    /\ task' = [task EXCEPT ![h] = [NoTask EXCEPT !.pc = "ended"]]
    /\ ws' = [ws EXCEPT ![h].st = "closed"]
    /\ running' = Idle

\* receive_json raises WebSocketDisconnect: disconnect(agent_id), then the
\* agent_left broadcast.
RecvDisconnect(h) ==
    /\ running = Idle
    /\ task[h].pc = "recv"
    /\ ws[h].st \in {"dropped", "closed_wd"}
    /\ LET a == ws[h].agent
           R == disconnect(Registry, a, now) IN
        /\ SetRegistry(R)
        /\ task' = [task EXCEPT ![h].pc = "bc_loop",
                                ![h].bc = BcInit(R, OutMsg("agent_left", h, a, {}), a, "left")]
    /\ running' = RunWs(h)
    /\ UNCHANGED <<client, rest, lim, log, now, ws, sup, outbox, cache, history, actions_log, db_agents, nconn, nmsgs,
                   nscans, nfaults, nticks, nregs>>

\* receive_json raises something else: it is called on a websocket the
\* server closed while the task was busy, or the frame is not JSON.
RecvError(h) ==
    /\ running = Idle
    /\ task[h].pc = "recv"
    /\ \/ ws[h].st = "closed" /\ nfaults' = nfaults
       \/ ws[h].st = "open" /\ nfaults < lim.faults /\ nfaults' = nfaults + 1
    /\ Raise(h, log)
    /\ UNCHANGED <<client, rest, lim, now, sup, outbox, cache, history, actions_log, db_agents, nconn, nmsgs,
                   nscans, nticks, nregs>>

\* What follows a broadcast that ended, by the caller.
AfterBroadcast(h, cont) ==
    CASE cont = "left" -> [task[h] EXCEPT !.pc = "left_db", !.bc = NoBc]
      [] OTHER -> [NoTask EXCEPT !.pc = "recv"]

\* One turn of broadcast()'s loop in the task of websocket h.
BcLoop(h) ==
    /\ running = RunWs(h)
    /\ task[h].pc = "bc_loop"
    /\ LET r == BcRun(task[h].bc, Registry, outbox) IN
        \/ /\ r.kind = "await"
           /\ task' = [task EXCEPT ![h].pc = "bc_wait", ![h].bc = r.bc]
           /\ outbox' = r.ob
           /\ running' = Idle
           /\ UNCHANGED <<active_connections, agent_metadata, last_heartbeat, ws, log>>
        \/ /\ r.kind = "done"
           /\ SetRegistry(r.R)
           /\ task' = [task EXCEPT ![h] = AfterBroadcast(h, task[h].bc.cont)]
           /\ running' = Idle
           /\ log' = Finish(log, h, "done", r.R)
           /\ UNCHANGED <<outbox, ws>>
        \/ /\ r.kind = "error"
           /\ IF task[h].bc.cont = "left"
              THEN Die(h) /\ UNCHANGED <<active_connections, agent_metadata, last_heartbeat, log>>
              ELSE Raise(h, log)
           /\ UNCHANGED outbox
    /\ UNCHANGED <<client, rest, lim, now, sup, cache, history, actions_log, db_agents, nconn, nmsgs, nscans,
                   nfaults, nticks, nregs>>

\* The send the broadcast awaited is over.
BcResume(h) ==
    /\ running = Idle
    /\ task[h].pc = "bc_wait"
    /\ Completes(task[h].bc)
    /\ task' = [task EXCEPT ![h].pc = "bc_loop"]
    /\ running' = RunWs(h)
    /\ UNCHANGED <<client, rest, lim, log, now, active_connections, agent_metadata, last_heartbeat, ws, sup, outbox,
                   cache, history, actions_log, db_agents, nconn, nmsgs, nscans, nfaults,
                   nticks, nregs>>

\* update_agent_status(agent_id, "offline") after the agent_left broadcast.
LeftDb(h) ==
    /\ running = Idle
    /\ task[h].pc = "left_db"
    /\ \/ /\ db_agents' = IF DictHas(db_agents, ws[h].agent)
                          THEN DictSet(db_agents, ws[h].agent, "offline", 0)
                          ELSE db_agents
          /\ nfaults' = nfaults
       \/ /\ nfaults < lim.faults
          /\ nfaults' = nfaults + 1
          /\ db_agents' = db_agents
    /\ Die(h)
    /\ UNCHANGED <<client, rest, lim, log, now, active_connections, agent_metadata, last_heartbeat, sup, outbox, cache,
                   history, actions_log, nconn, nmsgs, nscans, nticks, nregs>>

\* --------------------------------------------------------- StorageManager
\* A context event as cache_context and store_context write it.
Event(a, m, tag) == [agent |-> a, ctype |-> m.ctype, val |-> m.val,
                     prio |-> IF m.prio = -1 THEN 1 ELSE m.prio, tag |-> tag]

\* A ContextUpdate without the bounds of the priority.
ContextUnbounded(m) == m.ctype # "missing"

\* ContextUpdate(...) of handle_context_update: data["context_type"] and
\* data["data"] raise KeyError when missing, and the model's
\* Field(ge=1, le=5) refuses a priority outside 1..5.
ContextValid(m) ==
    /\ m.ctype # "missing"
    /\ m.prio = -1 \/ (m.prio >= 1 /\ m.prio <= 5)

\* redis SETEX key 3600 value.
cache_context(c, e, t) ==
    DictSet(c, <<e.agent, e.ctype>>, [event |-> e, written |-> t], 0)

\* A store that keeps the latest event only.
store_latest(hist, e) == <<e>>

store_context(hist, e) == Append(hist, e)

\* The results log_action may be given: None, {} and a dict with a value.
Results == {"none", "empty", "value"}

\* `if result`: None and the empty dict are false.
Truthy(result) == result \notin {"none", "empty"}

\* INSERT INTO actions_log: the result column is json.dumps(result) `if
\* result` and NULL otherwise, the status "success" `if result` and
\* "pending" otherwise.
log_action(al, a, m, tag, result) ==
    Append(al, [agent |-> a, action |-> "act", target |-> m.target, rid |-> m.rid,
                result |-> IF Truthy(result) THEN result ELSE "none",
                status |-> IF Truthy(result) THEN "success" ELSE "pending", tag |-> tag])

\* ------------------------------------------------------------ send_to_agent
\* A send_to_agent that leaves the registry alone when the send raises.
send_without_eviction(R, ob, target, msg) ==
    IF DictHas(R.ac, target) /\ SendOk(DictGet(R.ac, target))
    THEN [R |-> R, ob |-> Deliver(ob, DictGet(R.ac, target), msg)]
    ELSE [R |-> R, ob |-> ob]

\* send_to_agent(target, msg): nothing when the agent has no connection, the
\* message on its websocket, or disconnect(target) when the send raises.
send_to_agent(R, ob, target, msg) ==
    IF DictHas(R.ac, target)
    THEN IF SendOk(DictGet(R.ac, target))
         THEN [R |-> R, ob |-> Deliver(ob, DictGet(R.ac, target), msg)]
         ELSE [R |-> disconnect(R, target, now), ob |-> ob]
    ELSE [R |-> R, ob |-> ob]

\* A handler ends with a send_to_agent and the task is back in receive_json.
SendAndReceive(h, lg, target, msg) ==
    LET r == send_to_agent(Registry, outbox, target, msg) IN
    /\ SetRegistry(r.R)
    /\ outbox' = r.ob
    /\ log' = Finish(lg, h, "done", r.R)
    /\ task' = [task EXCEPT ![h] = [NoTask EXCEPT !.pc = "recv"]]
    /\ running' = Idle
    /\ UNCHANGED ws

\* A call of the store returns, or (a fault) raises.
StoreOk == nfaults' = nfaults

StoreFails(h) ==
    /\ nfaults < lim.faults
    /\ nfaults' = nfaults + 1
    /\ Raise(h, log)

\* A handler that does not hold its task: the endpoint reads the next
\* message while the handling of the last one is still awaiting.
ReadsWhileHandling(h) == task[h].pc \in {"recv", "ar_log", "hb_db"}

\* The loop of agent_websocket is at its receive_json: handle_agent_message
\* has returned for every message read before.
AwaitsMessage(h) == task[h].pc = "recv"

\* ------------------------------------------------------ handle_agent_message
\* The keys of the dispatch table.
handlers == {"register", "context_update", "query", "action_request", "heartbeat"}

\* A router that treats a type without a handler as an error of the message.
UnknownTypeRaises(h, lg) ==
    /\ Raise(h, lg)
    /\ UNCHANGED <<outbox, nregs>>

\* The type has no handler: a warning is logged and the task is back in
\* receive_json.
UnknownType(h, lg) ==
    /\ log' = Finish(lg, h, "done", Registry)
    /\ UNCHANGED <<active_connections, agent_metadata, last_heartbeat, ws, task,
                   running, outbox, nregs>>

\* receive_json returns message m on websocket h and handle_agent_message
\* runs its handler up to the handler's first await.
Receive(h, m) ==
    /\ running = Idle
    /\ AwaitsMessage(h)
    /\ ws[h].st = "open"
    /\ nmsgs < lim.msgs
    /\ nmsgs' = nmsgs + 1
    /\ LET a == ws[h].agent
           tag == nmsgs + 1
           busy(pc) == [task EXCEPT ![h].pc = pc, ![h].m = m, ![h].tag = tag]
           lg == Append(log, [h |-> h, agent |-> a, m |-> m, st |-> "busy",
                              start |-> Conns(active_connections),
                              live |-> {c \in Handles : ws[c].st = "open"}, end |-> {},
                              views |-> IF m.type = "query" THEN {View(cache, now)}
                                        ELSE {},
                              before |-> {i \in DOMAIN log : log[i].st # "busy"}])
           await(pc) == /\ task' = busy(pc)
                        /\ log' = lg
                        /\ UNCHANGED <<active_connections, agent_metadata, last_heartbeat,
                                       ws, running, outbox, nregs>> IN
       CASE m.type = "register" ->
              IF m.atype = "missing"
              THEN Raise(h, lg) /\ UNCHANGED <<outbox, nregs>>
              ELSE /\ SetRegistry(register_agent(Registry, a, m.atype, now))
                   /\ nregs' = [nregs EXCEPT ![a] = @ + 1]
                   /\ task' = busy("reg_db")
                   /\ log' = lg
                   /\ UNCHANGED <<ws, running, outbox>>
         [] m.type = "context_update" ->
              IF ContextValid(m)
              THEN await("cu_cache")
              ELSE Raise(h, lg) /\ UNCHANGED <<outbox, nregs>>
         [] m.type = "query" ->
              CASE m.qtype = "missing" -> Raise(h, lg) /\ UNCHANGED <<outbox, nregs>>
                [] m.qtype = "get_current_context" -> await("q_scan")
                [] m.qtype \in {"search_memory", "get_conversation_history"} ->
                     await("q_read")
                [] m.qtype = "get_agent_state" ->
                     IF m.target = "missing"
                     THEN /\ SendAndReceive(h, lg, a, OutMsg("query_response_error", tag, a, {}))
                          /\ UNCHANGED nregs
                     ELSE await("q_read")
                [] OTHER ->
                     /\ SendAndReceive(h, lg, a, OutMsg("query_response_error", tag, a, {}))
                     /\ UNCHANGED nregs
         [] m.type = "action_request" ->
              IF m.target = "missing"
              THEN Raise(h, lg) /\ UNCHANGED <<outbox, nregs>>
              ELSE IF ~is_agent_connected(Registry, m.target)
              THEN /\ SendAndReceive(h, lg, a, ActMsg("action_response_error", tag, a, m.rid))
                   /\ UNCHANGED nregs
              ELSE await("ar_log")
         [] m.type = "heartbeat" ->
              /\ SetRegistry(update_heartbeat(Registry, a, now))
              /\ task' = busy("hb_db")
              /\ log' = lg
              /\ UNCHANGED <<ws, running, outbox, nregs>>
         [] OTHER -> UnknownType(h, lg)
    /\ UNCHANGED <<client, rest, lim, now, sup, cache, history, actions_log, db_agents, nconn, nscans, nfaults,
                   nticks>>

\* A handler's broadcast starts: the task holds the loop for the first turn.
StartBroadcast(h, msg, exclude) ==
    /\ task' = [task EXCEPT ![h].pc = "bc_loop",
                            ![h].bc = BcInit(Registry, msg, exclude, "recv")]
    /\ running' = RunWs(h)
    /\ UNCHANGED <<active_connections, agent_metadata, last_heartbeat, ws, log>>

\* handle_registration after `await storage_manager.register_agent`: the row
\* is written and the agent_joined broadcast starts.
RegDb(h) ==
    /\ running = Idle
    /\ task[h].pc = "reg_db"
    /\ \/ /\ StoreOk
          /\ db_agents' = DictSet(db_agents, ws[h].agent, "active", 0)
          /\ StartBroadcast(h, OutMsg("agent_joined", task[h].tag, ws[h].agent, {}),
                            ws[h].agent)
       \/ StoreFails(h) /\ UNCHANGED db_agents
    /\ UNCHANGED <<client, rest, lim, now, sup, outbox, cache, history, actions_log, nconn, nmsgs, nscans, nticks,
                   nregs>>

\* handle_context_update after `await storage_manager.cache_context`.
CuCache(h) ==
    /\ running = Idle
    /\ task[h].pc = "cu_cache"
    /\ \/ /\ StoreOk
          /\ cache' = cache_context(cache, Event(ws[h].agent, task[h].m, task[h].tag), now)
          /\ log' = Observe(log, cache', now)
          /\ task' = [task EXCEPT ![h].pc = "cu_store"]
          /\ UNCHANGED <<active_connections, agent_metadata, last_heartbeat, ws, running>>
       \/ StoreFails(h) /\ UNCHANGED cache
    /\ UNCHANGED <<client, rest, lim, now, sup, outbox, history, actions_log, db_agents, nconn, nmsgs, nscans,
                   nticks, nregs>>

\* handle_context_update after `await storage_manager.store_context`: the
\* context_notification broadcast when the priority is at least 3.
CuStore(h) ==
    /\ running = Idle
    /\ task[h].pc = "cu_store"
    /\ LET a == ws[h].agent
           e == Event(a, task[h].m, task[h].tag) IN
       \/ /\ StoreOk
          /\ history' = store_context(history, e)
          /\ IF e.prio >= 3
             THEN StartBroadcast(h, OutMsg("context_notification", task[h].tag, a,
                                           {<<a, e.ctype, e.val>>}), a)
             ELSE /\ task' = [task EXCEPT ![h] = [NoTask EXCEPT !.pc = "recv"]]
                  /\ log' = Finish(log, h, "done", Registry)
                  /\ UNCHANGED <<active_connections, agent_metadata, last_heartbeat, ws,
                                 running>>
       \/ StoreFails(h) /\ UNCHANGED history
    /\ UNCHANGED <<client, rest, lim, now, sup, outbox, cache, actions_log, db_agents, nconn, nmsgs, nscans,
                   nticks, nregs>>

\* ---------------------------------------------------------------- REST API
\* A dict() that loses the priority of the body.
dict_without_priority(body) == [body EXCEPT !.prio = 1]

\* ContextUpdate.dict() of the body FastAPI parsed: the fields of the body,
\* with the default priority when it has none.
update_dict(body) == [body EXCEPT !.prio = IF @ = -1 THEN 1 ELSE @]

\* An exception in the handler: the request is answered 500.
RestFails ==
    /\ nfaults < lim.faults
    /\ nfaults' = nfaults + 1
    /\ rest' = [rest EXCEPT !.pc = "idle", !.bc = NoBc, !.status = "failed"]

\* POST /context/update with agent_id a: FastAPI builds the ContextUpdate,
\* answering 422 to a body the model refuses, and update_context_rest calls
\* handle_context_update(update.agent_id, update.dict()), which awaits
\* cache_context.
RestUpdate(a, body) ==
    /\ running = Idle
    /\ rest.pc = "idle"
    /\ nmsgs < lim.msgs
    /\ nmsgs' = nmsgs + 1
    /\ rest' = IF ContextValid(body)
               THEN [NoRest EXCEPT !.pc = "cu_cache", !.agent = a, !.body = body,
                                   !.m = update_dict(body), !.tag = nmsgs + 1,
                                   !.status = "busy"]
               ELSE [NoRest EXCEPT !.agent = a, !.body = body, !.tag = nmsgs + 1,
                                   !.status = "refused"]
    /\ UNCHANGED <<client, lim, log, now, active_connections, agent_metadata, last_heartbeat,
                   ws, task, sup, running, outbox, cache, history, actions_log, db_agents,
                   nconn, nscans, nfaults, nticks, nregs>>

\* handle_context_update, called by update_context_rest, after
\* `await storage_manager.cache_context`.
RestCache ==
    /\ running = Idle
    /\ rest.pc = "cu_cache"
    /\ \/ /\ StoreOk
          /\ cache' = cache_context(cache, Event(rest.agent, rest.m, rest.tag), now)
          /\ log' = Observe(log, cache', now)
          /\ rest' = [rest EXCEPT !.pc = "cu_store"]
       \/ RestFails /\ UNCHANGED <<cache, log>>
    /\ UNCHANGED <<client, lim, now, active_connections, agent_metadata, last_heartbeat, ws,
                   task, sup, running, outbox, history, actions_log, db_agents, nconn, nmsgs,
                   nscans, nticks, nregs>>

\* The same after `await storage_manager.store_context`: the
\* context_notification broadcast when the priority is at least 3, and the
\* answer of the request otherwise.
RestStore ==
    /\ running = Idle
    /\ rest.pc = "cu_store"
    /\ LET a == rest.agent
           e == Event(a, rest.m, rest.tag) IN
       \/ /\ StoreOk
          /\ history' = store_context(history, e)
          /\ IF e.prio >= 3
             THEN /\ rest' = [rest EXCEPT
                                !.pc = "bc_loop",
                                !.bc = BcInit(Registry,
                                              OutMsg("context_notification", rest.tag, a,
                                                     {<<a, e.ctype, e.val>>}), a, "rest")]
                  /\ running' = RunRest
             ELSE /\ rest' = [rest EXCEPT !.pc = "idle", !.status = "ok"]
                  /\ UNCHANGED running
       \/ RestFails /\ UNCHANGED <<history, running>>
    /\ UNCHANGED <<client, lim, log, now, active_connections, agent_metadata, last_heartbeat,
                   ws, task, sup, outbox, cache, actions_log, db_agents, nconn, nmsgs,
                   nscans, nticks, nregs>>

\* One turn of broadcast()'s loop in the request: its RuntimeError leaves
\* the handler and the request is answered 500.
RestBcLoop ==
    /\ running = RunRest
    /\ rest.pc = "bc_loop"
    /\ LET r == BcRun(rest.bc, Registry, outbox) IN
        \/ /\ r.kind = "await"
           /\ rest' = [rest EXCEPT !.pc = "bc_wait", !.bc = r.bc]
           /\ outbox' = r.ob
           /\ UNCHANGED <<active_connections, agent_metadata, last_heartbeat>>
        \/ /\ r.kind = "done"
           /\ SetRegistry(r.R)
           /\ rest' = [rest EXCEPT !.pc = "idle", !.bc = NoBc, !.status = "ok"]
           /\ UNCHANGED outbox
        \/ /\ r.kind = "error"
           /\ rest' = [rest EXCEPT !.pc = "idle", !.bc = NoBc, !.status = "failed"]
           /\ UNCHANGED <<active_connections, agent_metadata, last_heartbeat, outbox>>
    /\ running' = Idle
    /\ UNCHANGED <<client, lim, log, now, ws, task, sup, cache, history, actions_log, db_agents,
                   nconn, nmsgs, nscans, nfaults, nticks, nregs>>

\* The send the request's broadcast awaited is over.
RestBcResume ==
    /\ running = Idle
    /\ rest.pc = "bc_wait"
    /\ Completes(rest.bc)
    /\ rest' = [rest EXCEPT !.pc = "bc_loop"]
    /\ running' = RunRest
    /\ UNCHANGED <<client, lim, log, now, active_connections, agent_metadata, last_heartbeat,
                   ws, task, sup, outbox, cache, history, actions_log, db_agents, nconn,
                   nmsgs, nscans, nfaults, nticks, nregs>>

\* handle_action_request after `await storage_manager.log_action`: the row is
\* written and the request goes to the target through send_to_agent.
ArLog(h) ==
    /\ running = Idle
    /\ task[h].pc = "ar_log"
    /\ LET a == ws[h].agent
           m == task[h].m IN
       \/ /\ StoreOk
          /\ actions_log' = log_action(actions_log, a, m, task[h].tag, "none")
          /\ SendAndReceive(h, log, m.target, ActMsg("action_request", task[h].tag, a, m.rid))
       \/ StoreFails(h) /\ UNCHANGED <<actions_log, outbox>>
    /\ UNCHANGED <<client, rest, lim, now, sup, cache, history, db_agents, nconn, nmsgs, nscans, nticks, nregs>>

\* handle_heartbeat after `await storage_manager.update_agent_last_seen`: pong.
HbDb(h) ==
    /\ running = Idle
    /\ task[h].pc = "hb_db"
    /\ \/ /\ StoreOk
          /\ SendAndReceive(h, log, ws[h].agent, OutMsg("pong", task[h].tag, ws[h].agent, {}))
       \/ StoreFails(h) /\ UNCHANGED outbox
    /\ UNCHANGED <<client, rest, lim, now, sup, cache, history, actions_log, db_agents, nconn, nmsgs, nscans,
                   nticks, nregs>>

\* get_all_current_contexts after its SCAN: the keys redis holds now.  With
\* none the loop ends and the response goes out; otherwise the first GET is
\* awaited.
ScanKeys(c, t) == SelectSeq(c, LAMBDA e : Live(e, t))

QueryResponse(h, res) == OutMsg("query_response", task[h].tag, ws[h].agent, res)

QScan(h) ==
    /\ running = Idle
    /\ task[h].pc = "q_scan"
    /\ \/ /\ StoreOk
          /\ LET keys == ScanKeys(cache, now) IN
             IF keys = <<>>
             THEN SendAndReceive(h, log, ws[h].agent, QueryResponse(h, {}))
             ELSE /\ task' = [task EXCEPT ![h].pc = "q_get",
                                          ![h].keys = [i \in DOMAIN keys |-> keys[i].k]]
                  /\ UNCHANGED <<active_connections, agent_metadata, last_heartbeat, ws,
                                 running, outbox, log>>
       \/ StoreFails(h) /\ UNCHANGED outbox
    /\ UNCHANGED <<client, rest, lim, now, sup, cache, history, actions_log, db_agents, nconn, nmsgs, nscans,
                   nticks, nregs>>

\* One GET of get_all_current_contexts returns: the value joins the result
\* unless the key has expired since the SCAN.
QGet(h) ==
    /\ running = Idle
    /\ task[h].pc = "q_get"
    /\ \/ /\ StoreOk
          /\ LET key == Head(task[h].keys)
                 hit == {i \in DOMAIN cache : cache[i].k = key /\ Live(cache[i], now)}
                 res == task[h].res \cup
                        {<<cache[i].v.event.agent, cache[i].v.event.ctype,
                           cache[i].v.event.val>> : i \in hit} IN
             IF Tail(task[h].keys) = <<>>
             THEN SendAndReceive(h, log, ws[h].agent, QueryResponse(h, res))
             ELSE /\ task' = [task EXCEPT ![h].keys = Tail(@), ![h].res = res]
                  /\ UNCHANGED <<active_connections, agent_metadata, last_heartbeat, ws,
                                 running, outbox, log>>
       \/ StoreFails(h) /\ UNCHANGED outbox
    /\ UNCHANGED <<client, rest, lim, now, sup, cache, history, actions_log, db_agents, nconn, nmsgs, nscans,
                   nticks, nregs>>

\* search_memory, get_conversation_history and get_agent_state after their
\* read of postgres: the response goes to the requester.
QRead(h) ==
    /\ running = Idle
    /\ task[h].pc = "q_read"
    /\ \/ /\ StoreOk
          /\ LET rows == CASE task[h].m.qtype = "search_memory" -> DOMAIN history
                           [] task[h].m.qtype = "get_conversation_history" ->
                                {i \in DOMAIN history :
                                    history[i].ctype \in {"user_speech", "agent_response"}}
                           [] OTHER -> {} IN
             SendAndReceive(h, log, ws[h].agent,
                 QueryResponse(h, {<<history[i].agent, history[i].ctype, history[i].val>> :
                                      i \in rows}))
       \/ StoreFails(h) /\ UNCHANGED outbox
    /\ UNCHANGED <<client, rest, lim, now, sup, cache, history, actions_log, db_agents, nconn, nmsgs, nscans,
                   nticks, nregs>>

\* ---------------------------------------------------- _monitor_heartbeats
\* websocket.close() by the server: a task waiting in receive_json is handed
\* the disconnect; a busy one finds the socket closed at its next receive.
CloseWs(w, h) ==
    IF w[h].st = "open"
    THEN [w EXCEPT ![h].st = IF task[h].pc = "recv" THEN "closed_wd" ELSE "closed"]
    ELSE w

\* The sleep is over: now and the list of last_heartbeat's items are taken.
ScanStart ==
    /\ running = Idle
    /\ sup.pc = "sleep"
    /\ nscans < lim.scans
    /\ nscans' = nscans + 1
    /\ sup' = [pc |-> "scan_loop", scan_now |-> now, snap |-> last_heartbeat,
               disconnected |-> <<>>, bc |-> NoBc, scan |-> nscans + 1,
               expired |-> {last_heartbeat[i].k : i \in {j \in DOMAIN last_heartbeat :
                                now - last_heartbeat[j].v > HeartbeatTimeout}},
               since |-> Conns(active_connections), evicted |-> {}, endc |-> {},
               errors |-> sup.errors]
    /\ running' = RunSup
    /\ UNCHANGED <<client, rest, lim, log, now, active_connections, agent_metadata, last_heartbeat, ws, task, outbox,
                   cache, history, actions_log, db_agents, nconn, nmsgs, nfaults, nticks, nregs>>

\* One turn of the first loop: an agent of the list whose heartbeat is older
\* than the timeout has its connection closed (an await) and joins
\* `disconnected`.
SupScanLoop ==
    /\ running = RunSup
    /\ sup.pc = "scan_loop"
    /\ IF sup.snap = <<>>
       THEN sup' = [sup EXCEPT !.pc = "evict_loop"] /\ UNCHANGED <<ws, running>>
       ELSE LET e == Head(sup.snap) IN
            IF sup.scan_now - e.v > HeartbeatTimeout
            THEN IF DictHas(active_connections, e.k)
                 THEN /\ ws' = CloseWs(ws, DictGet(active_connections, e.k))
                      /\ sup' = [sup EXCEPT !.pc = "close_wait"]
                      /\ running' = Idle
                 ELSE /\ sup' = [sup EXCEPT !.snap = Tail(@),
                                            !.disconnected = Append(@, e.k)]
                      /\ UNCHANGED <<ws, running>>
            ELSE sup' = [sup EXCEPT !.snap = Tail(@)] /\ UNCHANGED <<ws, running>>
    /\ UNCHANGED <<client, rest, lim, log, now, active_connections, agent_metadata, last_heartbeat, task, outbox, cache,
                   history, actions_log, db_agents, nconn, nmsgs, nscans, nfaults, nticks,
                   nregs>>

\* close() returned (or raised, which is ignored).
SupCloseResume ==
    /\ running = Idle
    /\ sup.pc = "close_wait"
    /\ sup' = [sup EXCEPT !.pc = "scan_loop", !.snap = Tail(@),
                          !.disconnected = Append(@, Head(sup.snap).k)]
    /\ running' = RunSup
    /\ UNCHANGED <<client, rest, lim, log, now, active_connections, agent_metadata, last_heartbeat, ws, task, outbox,
                   cache, history, actions_log, db_agents, nconn, nmsgs, nscans, nfaults,
                   nticks, nregs>>

\* The scan is over, normally or in its `except Exception`: the supervisor
\* sleeps again.
ScanEnd(s) ==
    [s EXCEPT !.pc = "sleep", !.scan_now = 0, !.snap = <<>>, !.disconnected = <<>>,
              !.bc = NoBc,
              !.endc = {h \in Conns(active_connections) : ws[h].st = "open"}]

\* An exception that nothing catches ends the supervisor's task.
Uncaught(s) == [s EXCEPT !.pc = "dead"]

\* The `except Exception` of the scan: the error is logged and the loop goes
\* on with its next sleep.
Caught(s) == [ScanEnd(s) EXCEPT !.errors = @ + 1]

\* One turn of the second loop: disconnect() the agent and start the
\* agent_timeout broadcast, which excludes no one.
SupEvictLoop ==
    /\ running = RunSup
    /\ sup.pc = "evict_loop"
    /\ IF sup.disconnected = <<>>
       THEN /\ sup' = ScanEnd(sup)
            /\ running' = Idle
            /\ UNCHANGED <<active_connections, agent_metadata, last_heartbeat>>
       ELSE LET a == Head(sup.disconnected)
                R == disconnect(Registry, a, now) IN
            /\ SetRegistry(R)
            /\ sup' = [sup EXCEPT !.pc = "bc_loop", !.evicted = @ \cup {a},
                          !.bc = BcInit(R, OutMsg("agent_timeout", sup.scan, a, {}), "", "evict")]
            /\ UNCHANGED running
    /\ UNCHANGED <<client, rest, lim, log, now, ws, task, outbox, cache, history, actions_log, db_agents, nconn, nmsgs,
                   nscans, nfaults, nticks, nregs>>

\* One turn of broadcast()'s loop in the supervisor.  Its RuntimeError is
\* caught by the `except Exception` of the scan, which drops what is left of
\* `disconnected` and sleeps again.
SupBcLoop ==
    /\ running = RunSup
    /\ sup.pc = "bc_loop"
    /\ LET r == BcRun(sup.bc, Registry, outbox) IN
        \/ /\ r.kind = "await"
           /\ sup' = [sup EXCEPT !.pc = "bc_wait", !.bc = r.bc]
           /\ outbox' = r.ob
           /\ running' = Idle
           /\ UNCHANGED <<active_connections, agent_metadata, last_heartbeat>>
        \/ /\ r.kind = "done"
           /\ SetRegistry(r.R)
           /\ sup' = [sup EXCEPT !.pc = "evict_loop", !.bc = NoBc, !.disconnected = Tail(@)]
           /\ UNCHANGED <<outbox, running>>
        \/ /\ r.kind = "error"
           /\ sup' = Caught(sup)
           /\ running' = Idle
           /\ UNCHANGED <<active_connections, agent_metadata, last_heartbeat, outbox>>
    /\ UNCHANGED <<client, rest, lim, log, now, ws, task, cache, history, actions_log, db_agents, nconn, nmsgs, nscans,
                   nfaults, nticks, nregs>>

SupBcResume ==
    /\ running = Idle
    /\ sup.pc = "bc_wait"
    /\ Completes(sup.bc)
    /\ sup' = [sup EXCEPT !.pc = "bc_loop"]
    /\ running' = RunSup
    /\ UNCHANGED <<client, rest, lim, log, now, active_connections, agent_metadata, last_heartbeat, ws, task, outbox,
                   cache, history, actions_log, db_agents, nconn, nmsgs, nscans, nfaults,
                   nticks, nregs>>

\* ------------------------------------------------------------ inbound messages
Register(atype) == InMsg("register", atype, "", 0, 0, "", "", 0)
ContextUpdate(ctype, val, prio) == InMsg("context_update", "", ctype, val, prio, "", "", 0)
Query(qtype, target) == InMsg("query", "", "", 0, 0, target, qtype, 0)
ActionRequest(target, rid) == InMsg("action_request", "", "", 0, 0, target, "", rid)
Heartbeat == InMsg("heartbeat", "", "", 0, 0, "", "", 0)

\* The messages the agents of the router's runs send.
RouterMsgs ==
    {Register("vision")}
    \cup {ContextUpdate("x", 1, p) : p \in {2, 4}}
    \cup {Query(q, "") : q \in {"get_current_context", "bogus"}}
    \cup {ActionRequest(t, 7) : t \in Agents}

\* --------------------------------------------------------------- the tasks
\* What the tasks of the hub do once started, whatever the agents send.
\* ---------------------------------------------------------------- MCPClient
\* A backoff whose exponent is not capped: it reaches max_reconnect_delay at
\* the seventh attempt.
backoff_uncapped(c, attempts, jitter) ==
    Min(c.reconnect_delay * 1000 * 2^(attempts - 1) + jitter, MaxReconnectDelay * 1000)

\* The delay of _handle_disconnection, in milliseconds, for the attempt
\* count after its increment.
backoff_delay(c, attempts, jitter) ==
    Min(c.reconnect_delay * 1000 * 2^Min(attempts - 1, 5) + jitter,
        MaxReconnectDelay * 1000)

\* The loop of connect() is at its `while self.should_reconnect`.
LoopTop(c) == [c EXCEPT !.pc = IF c.should_reconnect THEN "connecting" ELSE "stopped"]

\* A send() that writes whatever the state of the client.
send_blind(c, type) == [c EXCEPT !.wire = Append(@, type), !.result = "sent"]

\* MCPClient.send(data) for a message of the given type: False when there
\* is no websocket or the client is not connected; otherwise the message is
\* written, or the closed connection raises ConnectionClosed, which clears
\* connected.
send(c, type) ==
    IF c.websocket = "none" \/ ~c.connected
    THEN [c EXCEPT !.result = "failed"]
    ELSE IF c.websocket = "open"
         THEN [c EXCEPT !.wire = Append(@, type), !.result = "sent"]
         ELSE [c EXCEPT !.connected = FALSE, !.result = "failed"]

\* A run writes at most MaxWire messages on one connection.
Room(c) == (c.connected /\ c.websocket = "open") => Len(c.wire) < MaxWire

\* One turn of _heartbeat_loop after its sleep: a heartbeat is sent when the
\* client is connected, and the loop goes on while it is.
heartbeat_turn(c) ==
    IF c.connected THEN [send(c, "heartbeat") EXCEPT !.result = c.result] ELSE c

\* The cancel of the heartbeat task in _handle_disconnection and
\* disconnect(): it reaches the task the field refers to.
cancel_heartbeat(c) ==
    [c EXCEPT !.heartbeat_task = IF @ = "running" THEN "done" ELSE @]

\* A connection on which register() is not called.
connected_unregistered(c, st) ==
    [c EXCEPT !.websocket = st, !.wire = <<>>, !.connected = (st = "open"),
              !.reconnect_delay = ReconnectDelay, !.reconnect_attempts = 0]

\* connect() from the return of websockets.connect to the end of register():
\* the websocket is the new connection, in state st, connected is set, the
\* backoff is reset and register() calls send(), whose result it ignores.
connected_and_registered(c, st) ==
    LET c1 == [c EXCEPT !.websocket = st, !.wire = <<>>, !.connected = TRUE,
                        !.reconnect_delay = ReconnectDelay,
                        !.reconnect_attempts = 0]
    IN  [send(c1, "register") EXCEPT !.result = c1.result]

\* websockets.connect returned a connection, which the hub may have closed
\* by the time connect() runs again: the counters are reset, register()
\* sends, the heartbeat task is created over the one the field referred to,
\* and _listen runs.
ClConnected ==
    /\ client.pc = "connecting"
    /\ client.heartbeat_task = "running" => client.stale_tasks < MaxStale
    /\ \E st \in {"open", "closed"} :
         LET c2 == connected_and_registered(client, st)
         IN  client' = [c2 EXCEPT
                          !.pc = "listening",
                          !.stale_tasks = IF client.heartbeat_task = "running"
                                          THEN @ + 1 ELSE @,
                          !.heartbeat_task = IF c2.connected THEN "running" ELSE "done"]
    /\ UNCHANGED hubvars

\* websockets.connect raised: _handle_disconnection cancels the heartbeat
\* task, returns at once when reconnection is off, and otherwise counts the
\* attempt and sleeps.
ClConnectFailed ==
    /\ client.pc = "connecting"
    /\ client.reconnect_attempts < MaxAttempts
    /\ LET c1 == cancel_heartbeat([client EXCEPT !.connected = FALSE])
       IN  IF ~client.should_reconnect
           THEN client' = LoopTop(c1)
           ELSE \E j \in Jitters :
                  client' = [c1 EXCEPT
                               !.pc = "sleeping",
                               !.reconnect_attempts = @ + 1, !.jitter = j,
                               !.delay = backoff_delay(client, client.reconnect_attempts + 1, j)]
    /\ UNCHANGED hubvars

\* The sleep of _handle_disconnection is over.
ClWake ==
    /\ client.pc = "sleeping"
    /\ client' = LoopTop([client EXCEPT !.delay = 0, !.jitter = 0])
    /\ UNCHANGED hubvars

\* The connection behind the websocket closes or breaks.
ClClosed ==
    /\ client.pc = "listening"
    /\ client.websocket = "open"
    /\ client' = [client EXCEPT !.websocket = "closed"]
    /\ UNCHANGED hubvars

\* _listen returns (it catches the close of the connection and every
\* Exception): connect() goes round its loop without _handle_disconnection.
ClListenEnd ==
    /\ client.pc = "listening"
    /\ client.websocket = "closed"
    /\ client' = LoopTop([client EXCEPT !.connected = FALSE])
    /\ UNCHANGED hubvars

\* MCPClient.disconnect(): the flags are cleared, the heartbeat task the
\* field refers to is cancelled and the websocket, if there is one, closed.
client_disconnect(c) ==
    [cancel_heartbeat(c) EXCEPT
        !.should_reconnect = FALSE, !.connected = FALSE,
        !.websocket = IF @ = "none" THEN "none" ELSE "closed"]

\* The agent's code calls disconnect(), for the first time or again.
ClDisconnect ==
    /\ client' = client_disconnect(client)
    /\ UNCHANGED hubvars

\* The heartbeat task the field refers to wakes from its sleep.
ClBeat ==
    /\ client.heartbeat_task = "running"
    /\ Room(client)
    /\ LET c1 == heartbeat_turn(client)
       IN  client' = [c1 EXCEPT !.heartbeat_task = IF c1.connected THEN "running" ELSE "done"]
    /\ UNCHANGED hubvars

\* An earlier heartbeat task, which nothing cancelled, wakes from its sleep.
ClStaleBeat ==
    /\ client.stale_tasks > 0
    /\ Room(client)
    /\ LET c1 == heartbeat_turn(client)
       IN  client' = [c1 EXCEPT !.stale_tasks = IF c1.connected THEN @ ELSE @ - 1]
    /\ UNCHANGED hubvars

\* The agent's code calls publish_context(), that is send().
ClSend ==
    /\ Room(client)
    /\ client' = send(client, "context_update")
    /\ UNCHANGED hubvars

\* The agent's code calls on(message_type, callback):
\* self.callbacks[message_type] = callback.
ClOn(kind, cb) ==
    /\ client' = [client EXCEPT
                    !.callbacks = [k \in DOMAIN @ \cup {kind} |->
                                      IF k = kind THEN cb ELSE @[k]]]
    /\ UNCHANGED hubvars

\* A dispatch that looks the type up in the callbacks first.
dispatch_by_table(c, kind) ==
    IF kind \in DOMAIN c.callbacks
    THEN [c EXCEPT !.invoked = Append(@, <<kind, c.callbacks[kind]>>)]
    ELSE IF kind = "ping" THEN [send(c, "pong") EXCEPT !.result = c.result] ELSE c

\* _handle_message for a message of the given type: a ping is answered
\* through send() and nothing else is done; any other type calls the
\* callback the dict holds for it, if there is one.
handle_message(c, kind) ==
    IF kind = "ping"
    THEN [send(c, "pong") EXCEPT !.result = c.result]
    ELSE IF kind \in DOMAIN c.callbacks
         THEN [c EXCEPT !.invoked = Append(@, <<kind, c.callbacks[kind]>>)]
         ELSE c

\* `async for message in self.websocket` yields a message, one that arrived
\* before the connection closed included, and _handle_message handles it.
ClMessage(kind) ==
    /\ client.pc = "listening"
    /\ client.websocket \in {"open", "closed"}
    /\ client.inbound < MaxInbound
    /\ Room(client)
    /\ client' = [handle_message(client, kind) EXCEPT !.inbound = @ + 1]
    /\ UNCHANGED hubvars

\* -------------------------------------------------------------------- Next
\* The peer of websocket h goes away while every other websocket is open:
\* a run has one such departure.
FirstDrop(h) ==
    /\ \A g \in Handles : ws[g].st \in {"none", "open"}
    /\ PeerDrop(h)


\* The router: agents connect, send and leave.  A run accepts c websockets
\* and handles MaxEvents - c messages.
Init ==
    /\ Start
    /\ lim \in {Limits(c, MaxEvents - c, 0, 0, 0, 0) : c \in 1..MaxConns}

Next ==
    \/ \E a \in Agents : Connect(a)
    \/ \E h \in Handles : FirstDrop(h)
    \/ \E h \in Handles, m \in RouterMsgs : Receive(h, m)
    \/ \E h \in Handles : RecvDisconnect(h)
    \/ \E h \in Handles : BcLoop(h)
    \/ \E h \in Handles : BcResume(h)
    \/ \E h \in Handles : LeftDb(h)
    \/ \E h \in Handles : RegDb(h)
    \/ \E h \in Handles : CuCache(h)
    \/ \E h \in Handles : CuStore(h)
    \/ \E h \in Handles : ArLog(h)
    \/ \E h \in Handles : QScan(h)
    \/ \E h \in Handles : QGet(h)

Spec == Init /\ [][Next]_vars

\* The supervisor: agents connect, beat and leave while time passes.
SupInit ==
    /\ Start
    /\ lim \in {Limits(c, MaxConns - c, 1, 0, MaxTicks, ScanPeriod) : c \in 2..MaxConns}

SupNext ==
    \/ Tick
    \/ \E a \in Agents : Connect(a)
    \/ \E h \in Handles : FirstDrop(h)
    \/ \E h \in Handles : Receive(h, Heartbeat)
    \/ \E h \in Handles : RecvDisconnect(h)
    \/ \E h \in Handles : RecvError(h)
    \/ \E h \in Handles : BcLoop(h)
    \/ \E h \in Handles : BcResume(h)
    \/ \E h \in Handles : LeftDb(h)
    \/ \E h \in Handles : HbDb(h)
    \/ ScanStart
    \/ SupScanLoop
    \/ SupCloseResume
    \/ SupEvictLoop
    \/ SupBcLoop
    \/ SupBcResume

SupSpec == SupInit /\ [][SupNext]_vars

\* End to end: an agent registers, then publishes a context of priority 4,
\* then someone asks for the current contexts, while agents come and one
\* goes.
E2EScript ==
    <<Register("vision"), ContextUpdate("x", 1, 4), Query("get_current_context", "")>>

E2EReceive(h) ==
    /\ nmsgs < Len(E2EScript)
    /\ nmsgs < 2 => ws[h].agent = AgentOrder[1]
    /\ Receive(h, E2EScript[nmsgs + 1])

E2EInit ==
    /\ Start
    /\ lim \in {Limits(c, Len(E2EScript), 0, 0, 0, 0) : c \in 2..MaxConns}

E2ENext ==
    \/ \E a \in Agents : Connect(a)
    \/ \E h \in Handles : FirstDrop(h)
    \/ \E h \in Handles : E2EReceive(h)
    \/ \E h \in Handles : RecvDisconnect(h)
    \/ \E h \in Handles : BcLoop(h)
    \/ \E h \in Handles : BcResume(h)
    \/ \E h \in Handles : LeftDb(h)
    \/ \E h \in Handles : RegDb(h)
    \/ \E h \in Handles : CuCache(h)
    \/ \E h \in Handles : CuStore(h)
    \/ \E h \in Handles : QScan(h)
    \/ \E h \in Handles : QGet(h)

E2ESpec == E2EInit /\ [][E2ENext]_vars

\* The cache: agents write contexts of low priority and ask for the current
\* ones while time passes, two thirds of the TTL at a time.
CacheMsgs ==
    {ContextUpdate("x", v, 1) : v \in {1, 2}} \cup {Query("get_current_context", "")}

CacheInit ==
    /\ Start
    /\ lim \in {Limits(c, CacheEvents - c, 0, 0, MaxTicks, (2 * CacheTTL) \div 3) :
                   c \in 1..2}

CacheNext ==
    \/ Tick
    \/ \E a \in Agents : Connect(a)
    \/ \E h \in Handles, m \in CacheMsgs : Receive(h, m)
    \/ \E h \in Handles : CuCache(h)
    \/ \E h \in Handles : CuStore(h)
    \/ \E h \in Handles : QScan(h)
    \/ \E h \in Handles : QGet(h)

CacheSpec == CacheInit /\ [][CacheNext]_vars

\* Protocol errors: agents send messages of an unknown type or without a
\* required field, frames that are not JSON, a register and a valid
\* context_update; one
\* call of the store or one frame of a run may raise.
ProtoMsgs ==
    {InMsg("status", "", "", 0, 0, "", "", 0), Register("vision"),
     ContextUpdate("missing", 1, 1), ContextUpdate("x", 1, 9), ContextUpdate("x", 1, 2),
     ContextUpdate("x", 1, 0), ContextUpdate("x", 1, -1),
     Query("missing", ""), ActionRequest("missing", 7)}

ProtoInit ==
    /\ Start
    /\ lim \in {Limits(c, ProtoEvents - c, 0, 1, 0, 0) : c \in 1..2}

ProtoNext ==
    \/ \E a \in Agents : Connect(a)
    \/ \E h \in Handles : FirstDrop(h)
    \/ \E h \in Handles, m \in ProtoMsgs : Receive(h, m)
    \/ \E h \in Handles : RecvDisconnect(h)
    \/ \E h \in Handles : RecvError(h)
    \/ \E h \in Handles : BcLoop(h)
    \/ \E h \in Handles : BcResume(h)
    \/ \E h \in Handles : LeftDb(h)
    \/ \E h \in Handles : CuCache(h)
    \/ \E h \in Handles : CuStore(h)
    \/ \E h \in Handles : RegDb(h)

ProtoSpec == ProtoInit /\ [][ProtoNext]_vars

\* Unicast: agents ask for actions of one another and beat while one of
\* them leaves.
UnicastMsgs == {ActionRequest(t, 7) : t \in Agents} \cup {Heartbeat}

UnicastInit ==
    /\ Start
    /\ lim \in {Limits(c, UnicastEvents - c, 0, 0, 0, 0) : c \in 1..MaxConns}

UnicastNext ==
    \/ \E a \in Agents : Connect(a)
    \/ \E h \in Handles : FirstDrop(h)
    \/ \E h \in Handles, m \in UnicastMsgs : Receive(h, m)
    \/ \E h \in Handles : RecvDisconnect(h)
    \/ \E h \in Handles : BcLoop(h)
    \/ \E h \in Handles : BcResume(h)
    \/ \E h \in Handles : LeftDb(h)
    \/ \E h \in Handles : ArLog(h)
    \/ \E h \in Handles : HbDb(h)

UnicastSpec == UnicastInit /\ [][UnicastNext]_vars

\* The hub with one peer that has stopped reading: agents connect and one
\* leaves, the supervisor scans once, and every task that can take a step
\* eventually takes it, as the event loop runs every ready task.
StallInit ==
    /\ Start
    /\ lim \in {[Limits(c, 0, 1, 0, MaxTicks, ScanPeriod) EXCEPT !.stuck = {s}] :
                   c \in 2..MaxConns, s \in 1..MaxConns}

StallNext ==
    \/ Tick
    \/ \E a \in Agents : Connect(a)
    \/ \E h \in Handles : FirstDrop(h)
    \/ \E h \in Handles : RecvDisconnect(h)
    \/ \E h \in Handles : BcLoop(h)
    \/ \E h \in Handles : BcResume(h)
    \/ \E h \in Handles : LeftDb(h)
    \/ ScanStart
    \/ SupScanLoop
    \/ SupCloseResume
    \/ SupEvictLoop
    \/ SupBcLoop
    \/ SupBcResume

StallFair ==
    /\ WF_vars(SupScanLoop)
    /\ WF_vars(SupCloseResume)
    /\ WF_vars(SupEvictLoop)
    /\ WF_vars(SupBcLoop)
    /\ WF_vars(SupBcResume)
    /\ \A h \in Handles : /\ WF_vars(RecvDisconnect(h))
                           /\ WF_vars(BcLoop(h))
                           /\ WF_vars(BcResume(h))
                           /\ WF_vars(LeftDb(h))

StallSpec == StallInit /\ [][StallNext]_vars /\ StallFair

\* The supervisor over two scans, 90 seconds after the first agents came:
\* agents connect while it scans, those it closes leave, and every task
\* that can take a step eventually takes it.
RescanInit ==
    /\ Start
    /\ lim \in {Limits(c, 0, 2, 0, 1, HeartbeatTimeout + ScanPeriod) : c \in 2..MaxConns}

RescanNext ==
    \/ Tick
    \/ \E a \in Agents : Connect(a)
    \/ \E h \in Handles : RecvDisconnect(h)
    \/ \E h \in Handles : BcLoop(h)
    \/ \E h \in Handles : BcResume(h)
    \/ \E h \in Handles : LeftDb(h)
    \/ ScanStart
    \/ SupScanLoop
    \/ SupCloseResume
    \/ SupEvictLoop
    \/ SupBcLoop
    \/ SupBcResume

RescanSpec == RescanInit /\ [][RescanNext]_vars /\ StallFair /\ WF_vars(ScanStart)

\* The router with its REST adapter: agents connect, send context updates
\* and leave, and an external tool posts context updates.
RestMsgs == {ContextUpdate("x", 1, p) : p \in {2, 4}}

RestBodies == {ContextUpdate("x", 1, p) : p \in {-1, 4, 9}}

RestInit ==
    /\ Start
    /\ lim \in {Limits(c, RestEvents - c, 0, 0, 0, 0) : c \in 1..MaxConns}

RestNext ==
    \/ \E a \in Agents : Connect(a)
    \/ \E h \in Handles : FirstDrop(h)
    \/ \E h \in Handles, m \in RestMsgs : Receive(h, m)
    \/ \E h \in Handles : RecvDisconnect(h)
    \/ \E h \in Handles : BcLoop(h)
    \/ \E h \in Handles : BcResume(h)
    \/ \E h \in Handles : LeftDb(h)
    \/ \E h \in Handles : CuCache(h)
    \/ \E h \in Handles : CuStore(h)
    \/ \E a \in Agents, body \in RestBodies : RestUpdate(a, body)
    \/ RestCache
    \/ RestStore
    \/ RestBcLoop
    \/ RestBcResume

RestSpec == RestInit /\ [][RestNext]_vars

\* The action log: log_action is called for requests of the agents with no
\* result (None), an empty result ({}) or a result with a value.
LogAction(a, t, result) ==
    /\ running = Idle
    /\ nmsgs < lim.msgs
    /\ nmsgs' = nmsgs + 1
    /\ actions_log' = log_action(actions_log, a, ActionRequest(t, 7), nmsgs + 1, result)
    /\ UNCHANGED <<client, rest, lim, log, now, active_connections, agent_metadata,
                   last_heartbeat, ws, task, sup, running, outbox, cache, history, db_agents,
                   nconn, nscans, nfaults, nticks, nregs>>

LogInit ==
    /\ Start
    /\ lim = Limits(0, MaxLogged, 0, 0, 0, 0)

LogNext == \E a, t \in Agents, result \in Results : LogAction(a, t, result)

LogSpec == LogInit /\ [][LogNext]_vars

\* One Peer Client against a hub it cannot always reach.
ClientInit ==
    /\ Start
    /\ lim = Limits(0, 0, 0, 0, 0, 0)

ClientNext ==
    \/ ClConnected
    \/ ClConnectFailed
    \/ ClWake
    \/ ClClosed
    \/ ClListenEnd
    \/ ClDisconnect
    \/ ClBeat
    \/ ClStaleBeat
    \/ ClSend
    \/ ClOn("action_request", 1)

ClientSpec == ClientInit /\ [][ClientNext]_vars

\* The receive side of the Peer Client: the agent's code registers
\* callbacks while messages of the hub arrive on a connection that may close.
Kinds == {"ping", "action_request", "context_notification"}

DispatchNext ==
    \/ ClConnected
    \/ ClClosed
    \/ \E kind \in {"ping", "action_request"}, cb \in {1, 2} : ClOn(kind, cb)
    \/ \E kind \in Kinds : ClMessage(kind)

DispatchSpec == ClientInit /\ [][DispatchNext]_vars

\* ================================================================== claims
\* agents_status: the reconnection count it reports for agent a, the record's
\* "reconnect_attempts" or 0 when the record has none.
reconnect_count(a) ==
    IF agent_metadata[a].reconnect_attempts = -1
    THEN 0
    ELSE agent_metadata[a].reconnect_attempts

\* C1: after any number of registrations of one agent id the registry holds
\* one record for the id, and the record's reconnection count is the number
\* of registrations after the first.
C1_ReconnectCount ==
    \A a \in Agents :
        nregs[a] >= 1 =>
            /\ a \in DOMAIN agent_metadata
            /\ reconnect_count(a) = nregs[a] - 1

\* C2: when the supervisor removes a session, the session's last heartbeat is
\* older than the timeout at that moment.  The supervisor is about to call
\* disconnect() for the head of `disconnected`.
C2_EvictOnlyExpired ==
    (running = RunSup /\ sup.pc = "evict_loop" /\ sup.disconnected # <<>>) =>
        LET a == Head(sup.disconnected) IN
        DictHas(active_connections, a) =>
            now - DictGet(last_heartbeat, a) > HeartbeatTimeout

\* C3: when a scan has ended, every agent whose heartbeat had expired when it
\* started was removed by it, and every websocket registered from its start
\* to its end, and open at its end, was sent the agent_timeout of each such
\* agent.
C3_ExpiredRemovedAndAnnounced ==
    (sup.pc = "sleep" /\ sup.scan >= 1) =>
        \A a \in sup.expired :
            /\ a \in sup.evicted
            /\ \A h \in sup.since \cap sup.endc :
                   \E i \in DOMAIN outbox[h] :
                       /\ outbox[h][i].type = "agent_timeout"
                       /\ outbox[h][i].tag = sup.scan
                       /\ outbox[h][i].agent = a

\* The messages of one type and tag that websocket h was sent.
Sent(h, type, tag) ==
    {i \in DOMAIN outbox[h] : outbox[h][i].type = type /\ outbox[h][i].tag = tag}

\* The handling of inbound message i is over, by a return or by an exception.
Handled(i) == log[i].st \in {"done", "raised"}

\* C4: a handled context_update is in the history once and its key is in the
\* cache; with priority 1 or 2 no websocket was
\* sent a notification of it; with priority 3 to 5 every websocket of another
\* agent that was registered from the start to the end of the handling, and
\* open at its end, was sent exactly one, and no websocket of the sender any.
C4_PriorityGating ==
    \A i \in DOMAIN log :
        (Handled(i) /\ log[i].m.type = "context_update") =>
            /\ Cardinality({j \in DOMAIN history : history[j].tag = i}) = 1
            /\ \E j \in DOMAIN cache : cache[j].k = <<log[i].agent, log[i].m.ctype>>
            /\ \A h \in Handles :
                   Cardinality(Sent(h, "context_notification", i)) =
                       IF /\ log[i].m.prio >= 3
                          /\ h \in log[i].start \cap log[i].end
                          /\ ws[h].agent # log[i].agent
                       THEN 1
                       ELSE IF log[i].m.prio >= 3 /\ ws[h].agent # log[i].agent
                            THEN Cardinality(Sent(h, "context_notification", i))
                            ELSE 0

\* The messages of one type and tag sent, each with the websocket it went to.
SentAll(type, tag) ==
    {<<h, j>> : h \in Handles, j \in 1..MaxEvents} \cap
    UNION {{<<h, j>> : j \in Sent(h, type, tag)} : h \in Handles}

\* is_agent_connected(target_agent) when inbound message i was validated.
TargetConnected(i) == \E h \in log[i].start : ws[h].agent = log[i].m.target

\* C5: a handled action_request whose target was not connected produced one
\* action_response with status error, sent to a websocket of the requester
\* with the request's request_id, no action_request to any websocket and no
\* row in the action log.
C5_ErrorForAbsentTarget ==
    \A i \in DOMAIN log :
        (Handled(i) /\ log[i].m.type = "action_request" /\ ~TargetConnected(i)) =>
            /\ Cardinality(SentAll("action_response_error", i)) = 1
            /\ \A p \in SentAll("action_response_error", i) :
                   /\ ws[p[1]].agent = log[i].agent
                   /\ outbox[p[1]][p[2]].rid = log[i].m.rid
            /\ SentAll("action_request", i) = {}
            /\ \A j \in DOMAIN actions_log : actions_log[j].tag # i

\* C6: a handled action_request whose target, another agent, was connected
\* (registered, its websocket open) when it was validated produced exactly one action_request, sent to a websocket of the
\* target, and exactly one row in the action log, with status pending.
C6_ForwardAndLogOnce ==
    \A i \in DOMAIN log :
        (/\ Handled(i)
         /\ log[i].m.type = "action_request"
         /\ log[i].m.target # log[i].agent
         /\ TargetConnected(i)
         /\ \A h \in log[i].start : ws[h].agent = log[i].m.target => h \in log[i].live) =>
            /\ Cardinality(SentAll("action_request", i)) = 1
            /\ \A p \in SentAll("action_request", i) : ws[p[1]].agent = log[i].m.target
            /\ Cardinality({j \in DOMAIN actions_log : actions_log[j].tag = i}) = 1
            /\ \A j \in DOMAIN actions_log :
                   actions_log[j].tag = i => actions_log[j].status = "pending"

\* list_agents: the status it reports for the record of agent a, "connected"
\* unless the record carries a status of its own.
ListedStatus(a) ==
    IF agent_metadata[a].status = "absent" THEN "connected" ELSE agent_metadata[a].status

\* C10: an agent whose record is reported with status connected has a
\* websocket in the registry.
C10_ConnectedHasHandle ==
    \A a \in DOMAIN agent_metadata :
        ListedStatus(a) = "connected" => is_agent_connected(Registry, a)

\* C7 as stated: the delay of attempts 1 to 6 less its jitter is
\* min(2^(attempt-1), 60) seconds, and the delay of an attempt from 7 on is
\* within one second of 60 seconds.
C7_BackoffReaches60 ==
    client.pc = "sleeping" =>
        IF client.reconnect_attempts <= 6
        THEN client.delay - client.jitter =
                 1000 * Min(2^(client.reconnect_attempts - 1), 60)
        ELSE /\ client.delay >= 59000
             /\ client.delay <= 61000

\* C7, amended: the delay less its jitter is 1, 2, 4, 8, 16, 32 seconds for
\* attempts 1 to 6 and stays at 32 seconds from attempt 7 on.
C7_BackoffStaysAt32 ==
    client.pc = "sleeping" =>
        client.delay - client.jitter =
            IF client.reconnect_attempts <= 6
            THEN 1000 * Min(2^(client.reconnect_attempts - 1), 60)
            ELSE 32000

C7_SeventhAttempt ==
    /\ client.pc = "sleeping"
    /\ client.reconnect_attempts >= 7
    /\ client.jitter > 0

\* C8: the contexts a get_current_context query was answered with are what
\* the cache held at some moment between the query's arrival and its answer:
\* the live keys, each with the value of its last write.
C8_CurrentContextsSnapshot ==
    \A i \in DOMAIN log :
        (log[i].st = "done" /\ log[i].m.qtype = "get_current_context") =>
            \A p \in SentAll("query_response", i) :
                outbox[p[1]][p[2]].val \in log[i].views

\* C9: after an agent has registered, its context_update of priority 4 is
\* notified exactly once, with its sender and its value, to every websocket
\* of another agent that was registered from the start to the end of the
\* handling and open at its end, and every get_current_context query that
\* arrives after the handling is answered with the sender's entry.
C9_EndToEnd ==
    \A i \in DOMAIN log :
        (/\ Handled(i)
         /\ log[i].m.type = "context_update"
         /\ log[i].m.prio >= 3
         /\ \E r \in log[i].before :
                log[r].m.type = "register" /\ log[r].agent = log[i].agent) =>
            LET entry == <<log[i].agent, log[i].m.ctype, log[i].m.val>> IN
            /\ \A h \in log[i].start \cap log[i].end :
                   ws[h].agent # log[i].agent =>
                       /\ Cardinality(Sent(h, "context_notification", i)) = 1
                       /\ \A j \in Sent(h, "context_notification", i) :
                              /\ outbox[h][j].agent = log[i].agent
                              /\ outbox[h][j].val = {entry}
            /\ \A q \in DOMAIN log :
                   (/\ log[q].st = "done"
                    /\ log[q].m.qtype = "get_current_context"
                    /\ i \in log[q].before) =>
                       \A p \in SentAll("query_response", q) :
                           entry \in outbox[p[1]][p[2]].val

\* C11: a record of agent_metadata is never deleted (the ids that have a
\* record only grow), and a record carries status disconnected or a
\* disconnected_at only while its agent has no websocket in the registry.
C11_RecordRetained ==
    /\ [][DOMAIN agent_metadata \subseteq DOMAIN agent_metadata']_vars
    /\ [](\A a \in DOMAIN agent_metadata :
             (\/ agent_metadata[a].status = "disconnected"
              \/ agent_metadata[a].disconnected_at # -1) =>
                 ~is_agent_connected(Registry, a))

\* C12: handling a message whose type has no handler changes neither the
\* registry nor the cache, the history, the action log or the agents table,
\* sends nothing and closes nothing, and the sender's task is back in
\* receive_json.
C12_UnknownTypeDropped ==
    [][(/\ Len(log') = Len(log) + 1
        /\ log'[Len(log')].m.type \notin handlers) =>
           /\ UNCHANGED <<active_connections, agent_metadata, last_heartbeat, cache,
                          history, actions_log, db_agents, outbox, ws>>
           /\ task'[log'[Len(log')].h].pc = "recv"
           /\ log'[Len(log')].st = "done"]_vars

C12_UnknownTypeHandled ==
    \E i \in DOMAIN log :
        /\ log[i].m.type \notin handlers
        /\ log[i].st = "done"
        /\ ws[log[i].h].st = "open"
        /\ is_agent_connected(Registry, log[i].agent)
        /\ \E j \in DOMAIN log : j > i /\ log[j].h = log[i].h

\* A message whose construction into its model raises: a context_update
\* without context_type or with a priority outside 1..5, a query without
\* query_type, an action_request without target_agent.
Malformed(m) ==
    \/ m.type = "context_update" /\ ~ContextValid(m)
    \/ m.type = "query" /\ m.qtype = "missing"
    \/ m.type = "action_request" /\ m.target = "missing"

\* C13: handling a malformed message leaves the sender in the registry, its
\* websocket open and its task back in receive_json.
C13_MalformedKeepsSession ==
    [][(/\ Len(log') = Len(log) + 1
        /\ Malformed(log'[Len(log')].m)) =>
           LET h == log'[Len(log')].h IN
           /\ is_agent_connected(Registry, ws[h].agent) =>
                  DictHas(active_connections', ws[h].agent)
           /\ ws'[h].st = "open"
           /\ task'[h].pc = "recv"]_vars

\* The query types handle_query knows.
QueryTypes ==
    {"get_current_context", "search_memory", "get_agent_state", "get_conversation_history"}

\* C14: a handled query of an unknown query_type produced exactly one
\* query_response carrying an error, sent to a websocket of the requester
\* and to no other agent, its handling ended without an exception and the
\* requester was still registered when it ended.
C14_UnknownQueryAnswered ==
    \A i \in DOMAIN log :
        (/\ Handled(i)
         /\ log[i].m.type = "query"
         /\ log[i].m.qtype \notin QueryTypes \cup {"missing"}) =>
            /\ Cardinality(SentAll("query_response_error", i)) = 1
            /\ \A p \in SentAll("query_response_error", i) :
                   ws[p[1]].agent = log[i].agent
            /\ log[i].st = "done"
            /\ \E c \in log[i].end : ws[c].agent = log[i].agent

\* C15: an agent_joined is sent only once the agent's row is in the agents
\* table, and a handled register has its agent_joined sent exactly once to
\* every websocket of another agent that was registered from the start to
\* the end of the handling and open at its end, and to no websocket of the
\* registering agent.
C15_JoinedAfterStore ==
    /\ \A h \in Handles : \A j \in DOMAIN outbox[h] :
           outbox[h][j].type = "agent_joined" => DictHas(db_agents, outbox[h][j].agent)
    /\ \A i \in DOMAIN log :
           (Handled(i) /\ log[i].m.type = "register" /\ log[i].m.atype # "missing") =>
               \A h \in Handles :
                   IF ws[h].agent = log[i].agent
                   THEN Sent(h, "agent_joined", i) = {}
                   ELSE h \in log[i].start \cap log[i].end =>
                            Cardinality(Sent(h, "agent_joined", i)) = 1

\* C16: when a websocket registered for another agent was already dead at
\* the start of a handling that broadcasts (its send fails), the broadcast
\* runs to its end and every websocket of another agent that was registered
\* from the start to the end of the handling, and open at its end, was sent
\* the message exactly once; and a broadcast that ends removes from the
\* registry exactly the websockets whose send failed.
C16_BroadcastIsolatesFailures ==
    /\ [](\A i \in DOMAIN log :
             (/\ Handled(i)
              /\ \/ log[i].m.type = "register" /\ log[i].m.atype # "missing"
                 \/ /\ log[i].m.type = "context_update"
                    /\ ContextValid(log[i].m)
                    /\ log[i].m.prio >= 3
              /\ \E r \in log[i].start \ log[i].live : ws[r].agent # log[i].agent) =>
                 /\ log[i].st = "done"
                 /\ \A h \in log[i].start \cap log[i].end :
                        ws[h].agent # log[i].agent =>
                            Cardinality(Sent(h, "agent_joined", i)) +
                            Cardinality(Sent(h, "context_notification", i)) = 1)
    /\ [][\A h \in Handles :
             (/\ task[h].pc = "bc_loop"
              /\ task'[h].pc \in {"recv", "left_db"}) =>
                 Conns(active_connections') =
                     Conns(active_connections) \ task[h].bc.failedws]_vars

\* The agent the handler of websocket h is about to send to through
\* send_to_agent: the target of an action_request, the sender otherwise.
SendTarget(h) == IF task[h].pc = "ar_log" THEN task[h].m.target ELSE ws[h].agent

\* C17: a handler's send_to_agent sends nothing and leaves the registry
\* unchanged when the agent has no websocket in the registry; when the send
\* succeeds that websocket gets one more message and nothing else changes;
\* when it fails nothing is sent and the agent leaves active_connections and
\* last_heartbeat.
C17_SendToOnceOrEvict ==
    [][\A h \in Handles :
         (/\ task[h].pc \in {"ar_log", "hb_db", "q_scan", "q_get"}
          /\ task'[h].pc = "recv") =>
             LET t == SendTarget(h) IN
             IF ~DictHas(active_connections, t)
             THEN UNCHANGED <<outbox, active_connections, agent_metadata, last_heartbeat>>
             ELSE LET c == DictGet(active_connections, t) IN
                  IF ws[c].st = "open"
                  THEN /\ Len(outbox'[c]) = Len(outbox[c]) + 1
                       /\ \A g \in Handles :
                              \A j \in DOMAIN outbox[g] : outbox'[g][j] = outbox[g][j]
                       /\ \A g \in Handles \ {c} : Len(outbox'[g]) = Len(outbox[g])
                       /\ UNCHANGED <<active_connections, agent_metadata, last_heartbeat>>
                  ELSE /\ outbox' = outbox
                       /\ active_connections' = DictDel(active_connections, t)
                       /\ last_heartbeat' = DictDel(last_heartbeat, t)
                       /\ ~DictHas(active_connections', t)]_vars

C17_FailedSendEvicted ==
    \E i \in DOMAIN log : \E h \in log[i].start :
        /\ log[i].st = "done"
        /\ log[i].m.type = "action_request"
        /\ ws[h].agent = log[i].m.target
        /\ ws[h].agent # log[i].agent
        /\ ws[h].st = "dropped"
        /\ task[h].pc = "recv"
        /\ ~is_agent_connected(Registry, log[i].m.target)
        /\ SentAll("action_request", i) = {}
        /\ \E j \in DOMAIN actions_log : actions_log[j].tag = i

\* No task is busy and none has a closed websocket to find out about.
Quiet ==
    /\ running = Idle
    /\ \A h \in Handles :
           /\ task[h].pc \in {"unused", "recv", "ended"}
           /\ task[h].pc = "recv" => ws[h].st = "open"

\* C18: once the hub is quiet, for every websocket that was the only one of
\* its agent and whose session ended otherwise than in a handler (its peer
\* closed it, or receiving on it failed), every websocket of another agent
\* that was accepted before it and is still registered and open has been
\* sent an agent_left or agent_timeout naming the agent.
C18_EvictionAnnounced ==
    Quiet =>
        \A h \in Handles :
            (/\ task[h].pc = "ended"
             /\ ~\E i \in DOMAIN log : log[i].h = h /\ log[i].st = "raised"
             /\ ~\E g \in Handles \ {h} : ws[g].agent = ws[h].agent) =>
                \A c \in 1..(h - 1) :
                    (/\ ws[c].st = "open"
                     /\ c \in Conns(active_connections)) =>
                        \E j \in DOMAIN outbox[c] :
                            /\ outbox[c][j].type \in {"agent_left", "agent_timeout"}
                            /\ outbox[c][j].agent = ws[h].agent

C20_ShutdownIsFinal ==
    /\ [](~client.should_reconnect => ~client.connected)
    /\ [][~client.should_reconnect =>
             (client'.pc = "connecting" => client.pc = "connecting")]_vars
    /\ [](client.pc = "stopped" => ~client.should_reconnect)

\* C21: whenever _listen ends while shutdown was not requested, no heartbeat
\* loop is left running and the client goes to sleep for the backoff delay
\* of an attempt counter one higher, before it connects again.
C21_ListenEndBacksOff ==
    [][(client.pc = "listening" /\ client'.pc # "listening"
            /\ client.should_reconnect)
         => /\ client'.pc = "sleeping"
            /\ client'.reconnect_attempts = client.reconnect_attempts + 1
            /\ client'.delay = backoff_delay(client, client'.reconnect_attempts,
                                             client'.jitter)
            /\ client'.heartbeat_task # "running"
            /\ client'.stale_tasks = 0]_vars

\* C22: a disconnect() from the endpoint's failure paths for an agent with
\* no entry in active_connections leaves active_connections, last_heartbeat
\* and the status of every record as they are.
C22_DisconnectIdempotent ==
    [][\A h \in Handles :
         ((RecvDisconnect(h) \/ RecvError(h))
              /\ ~is_agent_connected(Registry, ws[h].agent))
         => /\ active_connections' = active_connections
            /\ last_heartbeat' = last_heartbeat
            /\ DOMAIN agent_metadata' = DOMAIN agent_metadata
            /\ \A a \in DOMAIN agent_metadata :
                 agent_metadata'[a].status = agent_metadata[a].status]_vars

\* C23: a heartbeat handled for an agent with no entry in active_connections
\* leaves the three tables of the registry as they are.
C23_HeartbeatNeedsSession ==
    [][\A h \in Handles :
         (Receive(h, Heartbeat) /\ ~is_agent_connected(Registry, ws[h].agent))
         => /\ last_heartbeat' = last_heartbeat
            /\ active_connections' = active_connections
            /\ agent_metadata' = agent_metadata]_vars

\* C24: the messages of one websocket are handled one after the other, in
\* the order they were read: when the handling of a message begins, the
\* handling of every earlier message of that websocket has finished.
C24_HandledInArrivalOrder ==
    \A i, j \in DOMAIN log :
        (i < j /\ log[i].h = log[j].h) =>
            /\ i \in log[j].before
            /\ log[i].st # "busy"

\* A websocket's second message is being handled after a first one whose
\* handler awaited the action log and the send to its target.
C24_SecondAfterAwait ==
    \E i, j \in DOMAIN log :
        /\ i < j
        /\ log[i].h = log[j].h
        /\ log[i].m.type = "action_request"
        /\ log[i].st = "done"
        /\ log[j].st = "busy"
        /\ actions_log # <<>>

\* C25: a supervisor that awaits the send of an agent_timeout broadcast
\* always gets on, whatever becomes of that send: it ends the scan and
\* sleeps until the next one.
C25_SupervisorOutlivesSend ==
    (sup.pc = "bc_wait") ~> (sup.pc = "sleep")

\* C26: every websocket of another agent that is registered and open when
\* the agent_left broadcast of websocket h starts, and whose peer does read,
\* eventually has the message, or stops being open and registered.
C26_BroadcastPassesStuckPeer ==
    \A h, c \in Handles :
        (/\ task[h].pc = "bc_loop"
         /\ task[h].bc.pos = 0
         /\ task[h].bc.msg.type = "agent_left"
         /\ c \in Conns(active_connections)
         /\ ws[c].st = "open"
         /\ ws[c].agent # task[h].bc.exclude
         /\ c \notin lim.stuck)
        ~> (\/ Sent(c, "agent_left", h) # {}
            \/ ws[c].st # "open"
            \/ c \notin Conns(active_connections))

\* C27: the supervisor's task never ends; a scan that raises is caught and
\* leaves the supervisor in its sleep, and the scan after it starts.
C27_ScanLoopSurvives ==
    /\ [](sup.pc \in {"sleep", "scan_loop", "close_wait", "evict_loop", "bc_loop", "bc_wait"})
    /\ [][sup'.errors # sup.errors =>
            (sup'.errors = sup.errors + 1 /\ sup'.pc = "sleep")]_vars
    /\ (sup.errors = 1 /\ sup.scan = 1) ~> (sup.scan = 2)

\* The second scan runs after the first one ended in its `except`, which
\* the agent_timeout broadcast had raised.
C27_ScanAfterError ==
    /\ sup.scan = 2
    /\ sup.pc = "scan_loop"
    /\ sup.errors = 1

\* C28: a send() of the agent's code while there is no websocket or the
\* client is not connected returns False and changes nothing else: nothing
\* is written, and connected, reconnect_attempts, should_reconnect and the
\* callbacks stay as they are.
C28_SendWhenDisconnected ==
    [][(ClSend /\ (client.websocket = "none" \/ ~client.connected))
         => client' = [client EXCEPT !.result = "failed"]]_vars

\* A send() failed before any connection was made, with a callback
\* registered and the client in the sleep of its second attempt or a later
\* one.
C28_FailedBeforeConnected ==
    /\ client.result = "failed"
    /\ client.websocket = "none"
    /\ DOMAIN client.callbacks # {}
    /\ client.pc = "sleeping"
    /\ client.reconnect_attempts >= 2

\* The register messages written on the client's current connection.
Registers == {i \in DOMAIN client.wire : client.wire[i] = "register"}

\* C29 as stated: every connection made resets the attempt counter and the
\* delay and has exactly one register written on it, before any heartbeat.
C29_OneRegisterPerConnection ==
    /\ [][(client.pc = "connecting" /\ client'.pc = "listening")
            => /\ client'.reconnect_attempts = 0
               /\ client'.reconnect_delay = ReconnectDelay
               /\ client'.wire = <<"register">>]_vars
    /\ [](client.websocket # "none" => Registers = {1})

\* C29, amended: every connection made resets the attempt counter and the
\* delay and calls register() once, before its heartbeat loop starts; the
\* register is the first message written on the connection and the only
\* register, and when the connection was already closed and the register
\* could not be written, nothing is ever written on that connection.
C29_RegisterFirstUnlessClosed ==
    /\ [][(client.pc = "connecting" /\ client'.pc = "listening")
            => /\ client'.reconnect_attempts = 0
               /\ client'.reconnect_delay = ReconnectDelay
               /\ \/ client'.wire = <<"register">> /\ client'.websocket = "open"
                  \/ /\ client'.wire = <<>>
                     /\ client'.websocket = "closed"
                     /\ ~client'.connected]_vars
    /\ [](client.wire # <<>> => Registers = {1})
    /\ []((client.websocket # "none" /\ client.wire = <<>>)
            => (client.websocket = "closed" /\ ~client.connected))

\* On a second connection, made while the heartbeat loop of the first one
\* still runs, a heartbeat follows the register.
C29_HeartbeatAfterRegister ==
    /\ client.stale_tasks >= 1
    /\ Len(client.wire) >= 2
    /\ client.wire[1] = "register"
    /\ client.wire[2] = "heartbeat"
    /\ client.reconnect_attempts = 0

\* C30: POST /context/update has the side effects of the same context_update
\* received on the agent's connection.  With the fields of the request body
\* in the place of the message's, the request and the message do the same
\* cache write and the same history append, start the same
\* context_notification broadcast, excluding the agent, exactly when the
\* priority is at least 3, advance it by the same turns, and each of its sends
\* goes to a registered websocket of another agent.
C30_RestSameAsMessage ==
    [][LET e(a, m, tag) == Event(a, m, tag)
           CacheWrite(a, m, tag) == cache' = cache_context(cache, e(a, m, tag), now)
           HistoryAppend(a, m, tag) == history' = store_context(history, e(a, m, tag))
           Notification(a, m, tag) ==
               OutMsg("context_notification", tag, a, {<<a, m.ctype, m.val>>})
           Notifies(a, m, tag, pc, bc) ==
               /\ (pc = "bc_loop") <=> (e(a, m, tag).prio >= 3)
               /\ pc = "bc_loop" =>
                      [bc EXCEPT !.cont = ""] = BcInit(Registry, Notification(a, m, tag), a, "")
           Turn(bc) ==
               LET r == BcRun(bc, Registry, outbox) IN
               /\ outbox' = IF r.kind = "await" THEN r.ob ELSE outbox
               /\ \A c \in Handles :
                      outbox'[c] # outbox[c] =>
                          /\ outbox'[c] = Append(outbox[c], bc.msg)
                          /\ c \in Conns(active_connections)
                          /\ ws[c].agent # bc.exclude
       IN
       /\ (RestCache /\ rest'.pc = "cu_store") =>
              CacheWrite(rest.agent, rest.body, rest.tag)
       /\ (RestStore /\ rest'.status # "failed") =>
              /\ HistoryAppend(rest.agent, rest.body, rest.tag)
              /\ Notifies(rest.agent, rest.body, rest.tag, rest'.pc, rest'.bc)
       /\ RestBcLoop => Turn(rest.bc)
       /\ \A h \in Handles :
              /\ (CuCache(h) /\ task'[h].pc = "cu_store") =>
                     CacheWrite(ws[h].agent, task[h].m, task[h].tag)
              /\ (CuStore(h) /\ task'[h].pc # "ended") =>
                     /\ HistoryAppend(ws[h].agent, task[h].m, task[h].tag)
                     /\ Notifies(ws[h].agent, task[h].m, task[h].tag,
                                 task'[h].pc, task'[h].bc)
              /\ (BcLoop(h) /\ task[h].bc.msg.type = "context_notification") =>
                     Turn(task[h].bc)]_vars

\* C30 witness: a request of priority 4 has been answered and its
\* context_notification delivered, and so has the context_notification of a
\* context_update message.
C30_BothNotified ==
    /\ rest.status = "ok"
    /\ rest.body.prio = 4
    /\ \E c \in Handles : Sent(c, "context_notification", rest.tag) # {}
    /\ \E h, c \in Handles :
           /\ task[h].pc = "recv"
           /\ \E i \in DOMAIN outbox[c] :
                  /\ outbox[c][i].type = "context_notification"
                  /\ outbox[c][i].tag # rest.tag

\* C31: the history log is append-only.  Every step of the hub leaves the
\* entries appended so far in place and unmodified, and what it adds comes
\* after them.
C31_HistoryAppendOnly ==
    [][/\ Len(history') >= Len(history)
       /\ SubSeq(history', 1, Len(history)) = history]_vars

\* C31 witness: two context updates are in the history, a query has been
\* answered since the first, and an agent has left.
C31_TwoEntriesAfterLeave ==
    /\ Len(history) >= 2
    /\ \E i \in DOMAIN log :
           log[i].m.type = "query" /\ log[i].st = "done" /\ i > history[1].tag
    /\ \E h \in Handles : task[h].pc = "ended"

\* C32 as stated: every context_update with its required fields that has been
\* handled in a run without store failure is in the history, with priority 1
\* when it had none and with its priority clamped to [1,5] otherwise.
C32_DefaultOneElseClamped ==
    \A i \in DOMAIN log :
        (/\ nfaults = 0
         /\ log[i].m.type = "context_update"
         /\ log[i].m.ctype # "missing"
         /\ log[i].st \in {"done", "raised"})
        => \E k \in DOMAIN history :
               /\ history[k].tag = i
               /\ history[k].prio =
                      IF log[i].m.prio = -1 THEN 1
                      ELSE IF log[i].m.prio < 1 THEN 1
                      ELSE IF log[i].m.prio > 5 THEN 5
                      ELSE log[i].m.prio

\* C32: a context_update without a priority is stored with priority 1, one
\* with a priority in 1..5 is stored with that priority, and one whose
\* priority lies outside 1..5 is refused: it is written neither to the cache
\* nor to the history, whose priorities all lie in 1..5.
C32_DefaultOneElseRefused ==
    /\ \A k \in DOMAIN history :
           /\ history[k].prio \in 1..5
           /\ history[k].tag \in DOMAIN log
           /\ log[history[k].tag].m.type = "context_update"
           /\ history[k].prio = IF log[history[k].tag].m.prio = -1 THEN 1
                                ELSE log[history[k].tag].m.prio
    /\ \A j \in DOMAIN cache :
           /\ cache[j].v.event.prio \in 1..5
           /\ cache[j].v.event.prio =
                  IF log[cache[j].v.event.tag].m.prio = -1 THEN 1
                  ELSE log[cache[j].v.event.tag].m.prio
    /\ \A i \in DOMAIN log :
           (/\ log[i].m.type = "context_update"
            /\ log[i].m.prio # -1
            /\ log[i].m.prio \notin 1..5)
           => /\ log[i].st = "raised"
              /\ \A k \in DOMAIN history : history[k].tag # i
              /\ \A j \in DOMAIN cache : cache[j].v.event.tag # i
    /\ \A i \in DOMAIN log :
           (/\ nfaults = 0
            /\ log[i].m.type = "context_update"
            /\ log[i].m.ctype # "missing"
            /\ log[i].m.prio = -1
            /\ log[i].st = "done")
           => \E k \in DOMAIN history : history[k].tag = i /\ history[k].prio = 1

\* C32 witness: an update without priority is in the cache and in the history
\* with priority 1, and a later update of priority 9 has been refused.
C32_DefaultStoredNineRefused ==
    \E i, n \in DOMAIN log :
        /\ i < n
        /\ log[i].m.type = "context_update" /\ log[i].m.prio = -1 /\ log[i].st = "done"
        /\ \E k \in DOMAIN history : history[k].tag = i /\ history[k].prio = 1
        /\ \E j \in DOMAIN cache : cache[j].v.event.tag = i /\ cache[j].v.event.prio = 1
        /\ log[n].m.type = "context_update" /\ log[n].m.prio = 9 /\ log[n].st = "raised"

\* C33: log_action appends exactly one entry, whose status is success when a
\* result was supplied, an empty one included, and pending when none was.
C33_StatusFromSuppliedResult ==
    [][\A a, t \in Agents, result \in Results :
           LogAction(a, t, result) =>
               /\ Len(actions_log') = Len(actions_log) + 1
               /\ SubSeq(actions_log', 1, Len(actions_log)) = actions_log
               /\ actions_log'[Len(actions_log')].status =
                      IF result = "none" THEN "pending" ELSE "success"]_vars

C35_ShutdownIdempotent ==
    [][ClDisconnect =>
           /\ ~client'.should_reconnect
           /\ ~client'.connected
           /\ client'.heartbeat_task # "running"
           /\ client'.stale_tasks = 0
           /\ client_disconnect(client') = client']_vars

\* C36: when an agent connects while an earlier websocket of its id is
\* registered, the new websocket takes the place of the old one, and the end
\* of the old websocket's task leaves the new one registered: the agent's
\* entry is still the newer, open websocket after the disconnect path of the
\* stale one.
C36_StaleEndKeepsNewer ==
    [][/\ \A a \in Agents :
              Connect(a) => DictGet(active_connections', a) = nconn'
       /\ \A h, g \in Handles :
              (/\ RecvDisconnect(h)
               /\ g # h
               /\ ws[g].st = "open"
               /\ DictHas(active_connections, ws[h].agent)
               /\ DictGet(active_connections, ws[h].agent) = g)
              => /\ DictHas(active_connections', ws[h].agent)
                 /\ DictGet(active_connections', ws[h].agent) = g]_vars

\* C37: a connect or a disconnect during a broadcast does not abort it.  No
\* turn of a broadcast's loop raises, the handling of a register or of a
\* context_update of priority 3 or more returns normally, and every websocket
\* of another agent registered from its start to its end was sent the
\* message exactly once.
C37_BroadcastSurvivesRegistryChange ==
    /\ [][\A h \in Handles :
             BcLoop(h) => BcRun(task[h].bc, Registry, outbox).kind # "error"]_vars
    /\ [](\A i \in DOMAIN log :
             (/\ Handled(i)
              /\ \/ log[i].m.type = "register" /\ log[i].m.atype # "missing"
                 \/ /\ log[i].m.type = "context_update"
                    /\ ContextValid(log[i].m)
                    /\ Event(log[i].agent, log[i].m, i).prio >= 3) =>
                 /\ log[i].st = "done"
                 /\ \A c \in log[i].start \cap log[i].end :
                        ws[c].agent # log[i].agent =>
                            Cardinality(Sent(c, "agent_joined", i)) +
                            Cardinality(Sent(c, "context_notification", i)) = 1)

\* C38: at most one heartbeat loop runs per client: the task of the field
\* heartbeat_task and the earlier tasks still alive number at most one.
C38_OneHeartbeatLoop ==
    (IF client.heartbeat_task = "running" THEN 1 ELSE 0) + client.stale_tasks <= 1

\* C39: in every state of the hub the agent ids with an entry in
\* last_heartbeat are the agent ids with a websocket in active_connections.
C39_HeartbeatIdsAreConnectionIds ==
    DictKeys(last_heartbeat) = DictKeys(active_connections)

\* C40: the handling of a context_update never leaves the cache and the
\* history disagreeing: once the handling is over, by a return or by an
\* exception, an event it wrote to the cache is in the history too.
C40_CachedIsInHistory ==
    \A j \in DOMAIN cache :
        LET e == cache[j].v.event IN
        (e.tag \in DOMAIN log /\ Handled(e.tag)) =>
            \E k \in DOMAIN history : history[k] = e

====
